---- MODULE Spec2Model ----
(***************************************************************************)
(* tokio-seqpacket: the ancillary (control) message codec, the ownership   *)
(* of received file descriptors, the send / receive attempts of a          *)
(* connected pair of seqpacket sockets, and the async operations that      *)
(* retry them when the socket is ready.                                    *)
(*                                                                         *)
(* Byte layout is the one of 64-bit Linux: cmsghdr is 16 bytes             *)
(* (cmsg_len: usize, cmsg_level: i32, cmsg_type: i32), control messages    *)
(* are aligned to 8 bytes, a descriptor is 4 bytes, little endian.         *)
(* Buffers are functions from byte offsets 0..cap-1 to bytes; a pointer    *)
(* into a buffer is its offset, the null pointer is NULL.                  *)
(***************************************************************************)
EXTENDS Integers, Sequences, FiniteSets, TLC

VARIABLES
    anc,        \* the SocketAncillary objects: [buffer, length, truncated] each
    queue,      \* datagrams in flight from socket a to socket b (kernel)
    fdtab,      \* the process's descriptor table: fd -> open file, or NoFile
    owner,      \* who is responsible for closing each open descriptor
    rbuf,       \* AncillaryMessageReader.buffer (the bytes it was built on)
    rlen,       \* AncillaryMessageReader.length
    rtrunc,     \* AncillaryMessageReader.truncated
    rdState,    \* "live", "consumed" (into_messages was called) or "dropped"
    into,       \* the IntoAncillaryMessages made by into_messages
    msgs,       \* the OwnedFileDescriptors yielded so far, in order
    badClose,   \* descriptors the library closed without owning them
    leaked,     \* descriptors left open with nothing that will close them
    fault,      \* "none", or how the process left defined behaviour
    last,       \* the last operation and its result
    nops,       \* number of operations made so far
    tasks,      \* the tasks running async send / recv operations
    ready,      \* AsyncFd readiness: "w" of socket a, "r" of socket b
    pending,    \* readiness events the kernel raised, not yet delivered
    shut,       \* TRUE once socket b was shut down
    hungUp,     \* TRUE once socket a was dropped (closed)
    conn,       \* a connected pair used through its halves, both directions
    lsn,        \* a listener, its accepting task and the connecting clients
    poll,       \* the tasks that call poll_send / poll_recv / poll_accept
    iter        \* a Messages / AncillaryMessages iterator and what it yielded

vars == <<anc, queue, fdtab, owner, rbuf, rlen, rtrunc,
          rdState, into, msgs, badClose, leaked, fault, last, nops,
          tasks, ready, pending, shut, hungUp, conn, lsn, poll, iter>>

rdVars  == <<rbuf, rlen, rtrunc, rdState, into, msgs>>
ioVars  == <<tasks, ready, pending, shut, hungUp, conn, lsn, poll>>

----------------------------------------------------------------------------
(* Bounds of the model *)

MaxOps   == 4   \* operations in one run on the SocketAncillary objects
MaxQueue == 2   \* datagrams the socket buffers before a send would block
SmallCap == 20  \* capacity of the small control buffer "rx"

(* Program constants *)

Cap   == 64     \* the control buffer of the tests: [0; 64]
RdCap == 64     \* the reader's control buffer of the tests: [0; 64]

NULL   == -1    \* the null pointer
NoneTag == -2   \* Option::None of a descriptor or of a header

\* Descriptor numbers 0..FdLimit-1 exist; the table never fills up here.
FdLimit == 5 + 3 * (MaxOps + 1)
NoFile == "nofile"

SIZEOF_CMSGHDR == 16    \* size_of::<libc::cmsghdr>()
SIZEOF_USIZE   == 8     \* alignment unit of CMSG_ALIGN
FD_SIZE        == 4     \* size_of::<BorrowedFd>()
CREDS_SIZE     == 12    \* size_of::<libc::ucred>()
SOL_SOCKET      == 1
SCM_RIGHTS      == 1
SCM_CREDENTIALS == 2
MSG_CTRUNC       == 8
MSG_CMSG_CLOEXEC == 1073741824
U32_UNITS == 1073741824  \* u32::MAX + 1, counted in units of 4 bytes
TOO_BIG   == 2147483647  \* stands for every size_t value above 2^31 - 2

----------------------------------------------------------------------------
(* Bytes and little-endian fields *)

RECURSIVE LeBytes(_, _)
LeBytes(v, w) == IF w = 0 THEN <<>> ELSE <<v % 256>> \o LeBytes(v \div 256, w - 1)

\* The 4 bytes of a 32-bit signed integer (two's complement).
I32Bytes(v) ==
    IF v >= 0 THEN LeBytes(v, 4)
    ELSE [i \in 1..4 |-> 255 - LeBytes(-v - 1, 4)[i]]

\* The 8 bytes of the size_t whose value is 4 * units.
SizeBytesOfUnits(units) ==
    <<(units % 64) * 4>> \o LeBytes(units \div 64, 7)

\* buf with the bytes bs written at offset off (the part that lies inside buf).
WriteAt(buf, off, bs) ==
    [i \in DOMAIN buf |->
        IF i >= off /\ i < off + Len(bs) THEN bs[i - off + 1] ELSE buf[i]]

\* read_unaligned of an i32 at offset off.
ReadI32(buf, off) ==
    IF buf[off + 3] >= 128
    THEN -(1 + (255 - buf[off]) + (255 - buf[off + 1]) * 256
             + (255 - buf[off + 2]) * 65536 + (255 - buf[off + 3]) * 16777216)
    ELSE buf[off] + buf[off + 1] * 256 + buf[off + 2] * 65536
             + buf[off + 3] * 16777216

\* A size_t field at offset off. The sizes from 2^64 - 2^31 on are the
\* negative number they are congruent to modulo 2^64, which is what they are
\* in wrapping arithmetic; the other values that do not fit are TOO_BIG.
ReadSize(buf, off) ==
    LET high == {buf[off + i] : i \in 4..7} IN
    IF high = (IF buf[off + 3] >= 128 THEN {255} ELSE {0})
    THEN ReadI32(buf, off)
    ELSE TOO_BIG

cmsg_len(buf, cmsg)   == ReadSize(buf, cmsg)
cmsg_level(buf, cmsg) == ReadI32(buf, cmsg + 8)
cmsg_type(buf, cmsg)  == ReadI32(buf, cmsg + 12)

----------------------------------------------------------------------------
(* libc's control message macros, on offsets *)

CMSG_ALIGN(len) == ((len + SIZEOF_USIZE - 1) \div SIZEOF_USIZE) * SIZEOF_USIZE

\* CMSG_SPACE(len: c_uint) -> c_uint, with len = 4 * units; the result is in
\* units of 4 bytes too. The sum is cut to 32 bits by the cast to c_uint.
CMSG_SPACE_units(units) ==
    (2 * ((units + 1) \div 2) + (CMSG_ALIGN(SIZEOF_CMSGHDR) \div 4)) % U32_UNITS

\* A length field that counts the padding too.
CMSG_LEN_padded(units) == CMSG_SPACE_units(units)

\* CMSG_LEN(len: c_uint) -> c_uint, in units of 4 bytes; the sum wraps.
CMSG_LEN_units(units) == ((CMSG_ALIGN(SIZEOF_CMSGHDR) \div 4) + units) % U32_UNITS

CMSG_SPACE(len) == CMSG_ALIGN(len) + CMSG_ALIGN(SIZEOF_CMSGHDR)
CMSG_LEN(len)   == CMSG_ALIGN(SIZEOF_CMSGHDR) + len

CMSG_FIRSTHDR(controllen) == IF controllen >= SIZEOF_CMSGHDR THEN 0 ELSE NULL

CMSG_DATA(cmsg) == cmsg + SIZEOF_CMSGHDR

\* CMSG_NXTHDR of Linux, in wrapping arithmetic: a sum below 0 stands for a
\* sum that is huge, a huge length can bring the sum back into the buffer.
\* A next header that would lie before the buffer is taken to fail the
\* checks.
CMSG_NXTHDR(buf, controllen, cmsg) ==
    LET len == cmsg_len(buf, cmsg) IN
    IF len >= 0 /\ len < SIZEOF_CMSGHDR THEN NULL
    ELSE IF len = TOO_BIG THEN NULL
    ELSE LET next == cmsg + CMSG_ALIGN(len) IN
         IF next < 0 \/ next + SIZEOF_CMSGHDR > controllen THEN NULL
         ELSE LET nlen == cmsg_len(buf, next)
                  end  == next + CMSG_ALIGN(nlen) IN
              IF nlen = TOO_BIG THEN NULL
              ELSE IF end < 0 \/ end > controllen THEN NULL
              ELSE next

\* Whether a sum of CMSG_NXTHDR overflows usize: the build with overflow
\* checks panics there.
CMSG_NXTHDR_overflows(buf, controllen, cmsg) ==
    LET len == cmsg_len(buf, cmsg) IN
    IF len >= 0 /\ len < SIZEOF_CMSGHDR THEN FALSE
    ELSE IF len = TOO_BIG THEN FALSE
    ELSE len < 0 \/
         LET next == cmsg + CMSG_ALIGN(len) IN
         next + SIZEOF_CMSGHDR <= controllen /\ cmsg_len(buf, next) < 0

\* CMSG_NXTHDR of the systems that do not look at the length of the header
\* they return: with a length of zero it is the same header again.
CMSG_NXTHDR_same(buf, controllen, cmsg) ==
    LET len == cmsg_len(buf, cmsg) IN
    IF len = TOO_BIG THEN NULL
    ELSE LET next == cmsg + CMSG_ALIGN(len) IN
         IF next < 0 \/ next + SIZEOF_CMSGHDR > controllen THEN NULL
         ELSE next

----------------------------------------------------------------------------
(* The slices handed to add_fds / add_creds.                               *)
(* A source is [n, size, items]: n elements of size bytes each; items are  *)
(* the bytes of its first elements, every later element repeats the last   *)
(* item (so a slice of 2^30 descriptors needs no 2^30 items here).         *)

AncIds == {"tx", "rx"}
capacity(o) == IF o = "tx" THEN Cap ELSE SmallCap

AppFile(fd) == IF fd < 3 THEN "tty" ELSE IF fd = 3 THEN "fileA" ELSE "fileB"
OwnCred == [pid |-> 7, uid |-> 5, gid |-> 5]
NewCred == [pid |-> 0, uid |-> 0, gid |-> 0]     \* SocketCred::new()

FdSource(fds) ==
    [n |-> Len(fds), size |-> FD_SIZE,
     items |-> [i \in 1..Len(fds) |-> I32Bytes(fds[i])]]

HugeFdSource(n, fd) == [n |-> n, size |-> FD_SIZE, items |-> <<I32Bytes(fd)>>]

CredBytes(c) == I32Bytes(c.pid) \o LeBytes(c.uid, 4) \o LeBytes(c.gid, 4)

CredSource(creds) ==
    [n |-> Len(creds), size |-> CREDS_SIZE,
     items |-> [i \in 1..Len(creds) |-> CredBytes(creds[i])]]

\* Byte j of the source's memory.
SourceByte(src, j) ==
    LET e == j \div src.size
        k == IF e < Len(src.items) THEN e + 1 ELSE Len(src.items)
    IN src.items[k][(j % src.size) + 1]

\* The bytes of the items of a source, in order.
SourceBytes(src) ==
    [j \in 1..(Len(src.items) * src.size) |-> SourceByte(src, j - 1)]

FdLists   == {<<>>, <<3>>, <<4, 3>>}
CredLists == {<<OwnCred>>, <<NewCred>>}
\* Element counts whose byte size is at the edge of u32.
HugeCounts == {U32_UNITS - 5, U32_UNITS - 2, U32_UNITS - 1, U32_UNITS}

----------------------------------------------------------------------------
(* add_to_ancillary_data *)

\* The loop that looks for the last header: cmsg is not null.
RECURSIVE last_cmsg(_, _, _)
last_cmsg(buf, controllen, cmsg) ==
    LET next == CMSG_NXTHDR(buf, controllen, cmsg) IN
    IF next = NULL \/ next = cmsg THEN cmsg
    ELSE last_cmsg(buf, controllen, next)

\* A capacity test that lets everything through.
never_over(additional_units, len, cap) == FALSE

\* new_length > buffer.len(), with additional_space = 4 * additional_units.
over_capacity(additional_units, len, cap) ==
    additional_units > (cap - len) \div 4

\* Result: ok (the bool returned), buffer and length as the call leaves them,
\* oob: memcpy wrote past the end of the buffer, wraps: CMSG_LEN overflowed
\* u32, atPanic: the buffer as it is when that overflow panics (line 72).
\* All sizes that can pass 2^31 are counted in units of 4 bytes: every
\* element size here is a multiple of 4.
add_to_ancillary_data(buf, len, src, level, type) ==
    LET cap   == Cardinality(DOMAIN buf)
        units == src.n * (src.size \div 4)
        same  == [ok |-> FALSE, buffer |-> buf, length |-> len, oob |-> FALSE,
                  wraps |-> FALSE, atPanic |-> buf]
    IN
    \* checked_mul cannot fail: a slice is at most isize::MAX bytes.
    IF units >= U32_UNITS THEN same                    \* u32::try_from fails
    ELSE
    LET additional_units == CMSG_SPACE_units(units) IN
    \* checked_add cannot fail: both terms are below 2^33.
    IF over_capacity(additional_units, len, cap) THEN same
    ELSE
    LET new_length == len + 4 * additional_units
        zeroed == [i \in DOMAIN buf |->
                      IF i >= len /\ i < new_length THEN 0 ELSE buf[i]]
        first  == CMSG_FIRSTHDR(new_length)
    IN
    IF first = NULL
    THEN [ok |-> FALSE, buffer |-> zeroed, length |-> new_length, oob |-> FALSE,
          wraps |-> FALSE, atPanic |-> zeroed]         \* previous_cmsg.is_null()
    ELSE
    LET previous_cmsg == last_cmsg(zeroed, new_length, first)
        tagged == WriteAt(zeroed, previous_cmsg + 8,
                          I32Bytes(level) \o I32Bytes(type))
        header == WriteAt(tagged, previous_cmsg,
                          SizeBytesOfUnits(CMSG_LEN_units(units)))
        data   == CMSG_DATA(previous_cmsg)
        copied == [i \in DOMAIN buf |->
                      IF i >= data /\ (i - data) \div 4 < units
                      THEN SourceByte(src, i - data)
                      ELSE header[i]]
    IN [ok |-> TRUE, buffer |-> copied, length |-> new_length,
        oob |-> units > (cap - data) \div 4,
        wraps |-> (CMSG_ALIGN(SIZEOF_CMSGHDR) \div 4) + units >= U32_UNITS,
        atPanic |-> tagged]

\* How a call of add_to_ancillary_data can end, given its result r:
\* [ret, buffer, fault]. A CMSG_LEN overflow panics in a build with overflow
\* checks; a memcpy past the buffer is undefined: the process dies, or goes on
\* with the memory behind the buffer overwritten.
add_outcomes(r) ==
    (IF r.wraps
     THEN {[ret |-> FALSE, buffer |-> r.atPanic, fault |-> "panic"]} ELSE {})
    \cup
    (IF r.oob
     THEN {[ret |-> r.ok, buffer |-> r.buffer, fault |-> "oob"],
           [ret |-> FALSE, buffer |-> r.buffer, fault |-> "killed"]}
     ELSE {[ret |-> r.ok, buffer |-> r.buffer, fault |-> "none"]})

----------------------------------------------------------------------------
(* The kernel behind sendmsg / recvmsg on the connected pair (a, b):        *)
(* a sends, b receives; both ends belong to the one process of the tests.  *)

Payloads == {<<72, 105>>}               \* the datagrams' data bytes

Min(x, y) == IF x <= y THEN x ELSE y

IsOpen(tab, fd) == fd >= 0 /\ fd < FdLimit /\ tab[fd] # NoFile

\* The control messages of a sendmsg, from header cmsg on. acc: the files of
\* the rights messages before it, and the descriptor list of each of them.
RECURSIVE scm_send(_, _, _, _, _)
scm_send(buf, controllen, cmsg, tab, acc) ==
    IF cmsg = NULL THEN [err |-> "ok", files |-> acc.files, lists |-> acc.lists]
    ELSE
    LET len == cmsg_len(buf, cmsg) IN
    IF len < SIZEOF_CMSGHDR \/ len > controllen - cmsg
    THEN [err |-> "EINVAL", files |-> <<>>, lists |-> <<>>]
    ELSE
    LET after == cmsg + CMSG_ALIGN(len)
        next  == IF after + SIZEOF_CMSGHDR > controllen THEN NULL ELSE after
        num   == (len - SIZEOF_CMSGHDR) \div 4
        fds   == [i \in 1..num |-> ReadI32(buf, CMSG_DATA(cmsg) + 4 * (i - 1))]
    IN
    IF cmsg_level(buf, cmsg) # SOL_SOCKET
    THEN scm_send(buf, controllen, next, tab, acc)
    ELSE IF cmsg_type(buf, cmsg) = SCM_RIGHTS
    THEN IF \E i \in 1..num : ~IsOpen(tab, fds[i])
         THEN [err |-> "EBADF", files |-> <<>>, lists |-> <<>>]
         ELSE scm_send(buf, controllen, next, tab,
                  [files |-> acc.files \o [i \in 1..num |-> tab[fds[i]]],
                   lists |-> Append(acc.lists, fds)])
    ELSE IF cmsg_type(buf, cmsg) = SCM_CREDENTIALS
    THEN IF len # CMSG_LEN(CREDS_SIZE)
         THEN [err |-> "EINVAL", files |-> <<>>, lists |-> <<>>]
         ELSE IF \E j \in 0..(CREDS_SIZE - 1) :
                     buf[CMSG_DATA(cmsg) + j] # CredBytes(OwnCred)[j + 1]
         THEN [err |-> "EPERM", files |-> <<>>, lists |-> <<>>]
         ELSE scm_send(buf, controllen, next, tab, acc)
    ELSE [err |-> "EINVAL", files |-> <<>>, lists |-> <<>>]

\* sendmsg(fd, &header, flags) on socket a: [err, dgram].
sendmsg(buf, controllen, payload, tab, q) ==
    LET scm == scm_send(buf, controllen, CMSG_FIRSTHDR(controllen), tab,
                        [files |-> <<>>, lists |-> <<>>])
    IN IF scm.err # "ok" THEN [err |-> scm.err, dgram |-> <<>>]
       ELSE IF Len(q) >= MaxQueue THEN [err |-> "WouldBlock", dgram |-> <<>>]
       ELSE [err |-> "ok",
             dgram |-> [payload |-> payload, files |-> scm.files]]

\* The i lowest unused descriptor numbers of tab, lowest first.
RECURSIVE free_fds(_, _, _)
free_fds(tab, from, i) ==
    IF i = 0 \/ from >= FdLimit THEN <<>>
    ELSE IF tab[from] = NoFile
         THEN <<from>> \o free_fds(tab, from + 1, i - 1)
         ELSE free_fds(tab, from + 1, i)

\* recvmsg's delivery of the rights of datagram d into a control buffer of
\* cap bytes: [buffer, controllen, ctrunc, newfds]. Descriptors that do not
\* fit are dropped by the kernel and MSG_CTRUNC is set.
scm_detach_fds(buf, cap, d, tab) ==
    LET fdnum  == Len(d.files)
        fdmax  == IF cap > SIZEOF_CMSGHDR
                  THEN Min((cap - SIZEOF_CMSGHDR) \div 4, fdnum) ELSE 0
        newfds == free_fds(tab, 0, fdmax)
        i      == Len(newfds)
        header == SizeBytesOfUnits(CMSG_LEN(4 * i) \div 4)
                      \o I32Bytes(SOL_SOCKET) \o I32Bytes(SCM_RIGHTS)
        data   == [j \in 1..(4 * i) |->
                      I32Bytes(newfds[((j - 1) \div 4) + 1])[((j - 1) % 4) + 1]]
    IN [buffer     |-> IF i > 0 THEN WriteAt(buf, 0, header \o data) ELSE buf,
        controllen |-> IF i > 0 THEN Min(CMSG_SPACE(4 * i), cap) ELSE 0,
        ctrunc     |-> i < fdnum,
        newfds     |-> newfds]

\* header.msg_flags after a recvmsg that delivered k: the MSG_CMSG_CLOEXEC of
\* the call's flags is reported back, MSG_CTRUNC is set on truncation.
msg_flags(k) == MSG_CMSG_CLOEXEC + (IF k.ctrunc THEN MSG_CTRUNC ELSE 0)

\* flags & bit != 0, for a bit that is a power of two.
any_flag(flags, bit) == flags # 0
has_flag(flags, bit) == (flags \div bit) % 2 = 1

\* The descriptor table after the kernel installed newfds for the files of d.
install(tab, d, newfds) ==
    [fd \in DOMAIN tab |->
        IF \E k \in 1..Len(newfds) : newfds[k] = fd
        THEN d.files[CHOOSE k \in 1..Len(newfds) : newfds[k] = fd]
        ELSE tab[fd]]

own_as(own, newfds, who) ==
    [fd \in DOMAIN own |->
        IF \E k \in 1..Len(newfds) : newfds[k] = fd THEN who ELSE own[fd]]

----------------------------------------------------------------------------
(* SocketAncillary, send_msg and recv_msg *)

\* The last operation: its name, the object, what it returned (ret, size,
\* data) and, for a receive, what the sender had added to the datagram.
NoSent == [payload |-> <<>>, added |-> <<>>]
NoResult == [op |-> "new", o |-> "", ret |-> "", size |-> 0, data |-> <<>>,
             sent |-> NoSent]

Result(op, o, ret, size, data, sent) ==
    [op |-> op, o |-> o, ret |-> ret, size |-> size, data |-> data,
     sent |-> sent]

Bool(b) == IF b THEN "true" ELSE "false"

\* The body shared by add_fds and add_creds: truncated is reset first.
\* input (what the caller passed) is kept in `added` while the call's message
\* is part of the buffer's content.
add(o, op, src, type, input) ==
    LET r == add_to_ancillary_data(anc[o].buffer, anc[o].length, src,
                                   SOL_SOCKET, type)
    IN \E out \in add_outcomes(r) :
        /\ anc' = [anc EXCEPT ![o] = [buffer |-> out.buffer,
                                      length |-> r.length,
                                      truncated |-> FALSE,
                                      received |-> @.received,
                                      added |-> IF out.ret
                                                THEN Append(@.added, input)
                                                ELSE @.added]]
        /\ fault' = out.fault
        /\ last' = Result(op, o, IF out.fault \in {"panic", "killed"}
                                  THEN out.fault ELSE Bool(out.ret),
                          src.n * (src.size \div 4), SourceBytes(src), NoSent)

Step ==
    /\ fault = "none" /\ nops < MaxOps /\ nops' = nops + 1
    /\ UNCHANGED <<ioVars, iter>>

add_fds(o, fds) ==
    /\ Step
    /\ add(o, "add_fds", FdSource(fds), SCM_RIGHTS, [kind |-> "fds", items |-> fds])
    /\ UNCHANGED <<queue, fdtab, owner, rdVars, badClose, leaked>>

add_fds_huge(o, n) ==
    /\ Step
    /\ add(o, "add_fds", HugeFdSource(n, 3), SCM_RIGHTS,
           [kind |-> "fds", items |-> <<3>>])
    /\ UNCHANGED <<queue, fdtab, owner, rdVars, badClose, leaked>>

add_creds(o, creds) ==
    /\ Step
    /\ add(o, "add_creds", CredSource(creds), SCM_CREDENTIALS,
           [kind |-> "creds", items |-> creds])
    /\ UNCHANGED <<queue, fdtab, owner, rdVars, badClose, leaked>>

\* A clear that wipes the storage too.
clear_zeroing(a) ==
    [buffer |-> [i \in DOMAIN a.buffer |-> 0], length |-> 0,
     truncated |-> FALSE, received |-> FALSE, added |-> <<>>]

\* SocketAncillary::clear on the object a.
SocketAncillary_clear(a) ==
    [a EXCEPT !.length = 0, !.truncated = FALSE, !.received = FALSE,
              !.added = <<>>]

clear(o) ==
    /\ Step
    /\ anc' = [anc EXCEPT ![o] = SocketAncillary_clear(@)]
    /\ last' = Result("clear", o, "", 0, <<>>, NoSent)
    /\ UNCHANGED <<queue, fdtab, owner, rdVars, badClose, leaked, fault>>

\* header.msg_controllen of send_msg: ancillary.len(), the used length.
\* send_controllen_capacity: the length of the whole buffer.
send_controllen_capacity(a) == Cardinality(DOMAIN a.buffer)
send_controllen(a) == a.length

\* One attempt of send_msg(a, [payload], anc[o]).
send_msg(o, payload) ==
    LET r == sendmsg(anc[o].buffer, send_controllen(anc[o]), payload, fdtab,
                     queue) IN
    /\ Step
    /\ anc' = [anc EXCEPT ![o].truncated = FALSE]
    /\ queue' = IF r.err = "ok"
                THEN Append(queue, [payload |-> r.dgram.payload,
                                    files |-> r.dgram.files,
                                    sent |-> [payload |-> payload,
                                             added |-> anc[o].added]])
                ELSE queue
    /\ last' = Result("send", o, r.err,
                      IF r.err = "ok" THEN Len(payload) ELSE 0, <<>>, NoSent)
    /\ UNCHANGED <<fdtab, owner, rdVars, badClose, leaked, fault>>

\* The sending side of the tests: a new SocketAncillary on a zeroed buffer of
\* Cap bytes, add_fds(fds), one attempt of send_msg, and the drop of it all.
\* As in the tests it comes before the receive into the reader.
pass_fds(fds, payload) ==
    LET fresh == [i \in 0..(Cap - 1) |-> 0]
        a == add_to_ancillary_data(fresh, 0, FdSource(fds), SOL_SOCKET, SCM_RIGHTS)
        r == sendmsg(a.buffer, a.length, payload, fdtab, queue)
    IN /\ Step /\ rdState = "live"
       /\ queue' = IF r.err = "ok"
                   THEN Append(queue,
                            [payload |-> r.dgram.payload,
                             files |-> r.dgram.files,
                             sent |-> [payload |-> payload,
                                       added |-> IF a.ok
                                                 THEN <<[kind |-> "fds", items |-> fds]>>
                                                 ELSE <<>>]])
                   ELSE queue
       /\ last' = Result("send", "", r.err,
                         IF r.err = "ok" THEN Len(payload) ELSE 0, <<>>, NoSent)
       /\ UNCHANGED <<anc, fdtab, owner, rdVars, badClose, leaked, fault>>

\* What recv_msg leaves of the object a when recvmsg fails: it returns the
\* error before it writes truncated and length. recv_failed_reset: an attempt
\* that writes them from the untouched header instead.
recv_failed_reset(a) == [a EXCEPT !.length = 0, !.truncated = FALSE]
recv_failed(a) == a

\* header.msg_controllen of recv_msg: ancillary.capacity(), the length of
\* the whole buffer. recv_controllen_free: the part behind the used length.
recv_controllen_free(a) == Cardinality(DOMAIN a.buffer) - a.length
recv_controllen(a) == Cardinality(DOMAIN a.buffer)

\* One attempt of recv_msg(b, [buffer], anc[o]).
recv_msg(o) ==
    /\ Step
    /\ IF queue = <<>>
       THEN /\ last' = Result("recv", o, "WouldBlock", 0, <<>>, NoSent)
            /\ anc' = [anc EXCEPT ![o] = recv_failed(@)]
            /\ UNCHANGED <<queue, fdtab, owner>>
       ELSE LET d == Head(queue)
                k == scm_detach_fds(anc[o].buffer, recv_controllen(anc[o]), d,
                                    fdtab)
            IN /\ anc' = [anc EXCEPT ![o] = [buffer |-> k.buffer,
                                             length |-> k.controllen,
                                             truncated |-> has_flag(msg_flags(k),
                                                                    MSG_CTRUNC),
                                             received |-> k.controllen > 0,
                                             added |-> <<>>]]
               /\ queue' = Tail(queue)
               /\ fdtab' = install(fdtab, d, k.newfds)
               /\ owner' = own_as(owner, k.newfds, "anc")
               /\ last' = Result("recv", o, "ok", Len(d.payload), d.payload,
                                 d.sent)
    /\ UNCHANGED <<rdVars, badClose, leaked, fault>>

----------------------------------------------------------------------------
(* AncillaryMessageReader and the messages it yields *)

NoIter == [kind |-> "none", platform |-> "linux", buffer |-> <<>>,
           current |-> NoneTag, yielded |-> <<>>, over |-> FALSE,
           earlier |-> <<>>]

None == NoneTag

\* try_from_cmsghdr: the message at header cmsg. data_len is computed in
\* usize; a cmsg_len below the header size wraps around to a size that is
\* TOO_BIG.
try_from_cmsghdr(buf, cmsg) ==
    LET len   == cmsg_len(buf, cmsg)
        level == cmsg_level(buf, cmsg)
        type  == cmsg_type(buf, cmsg)
    IN [kind |-> IF level = SOL_SOCKET /\ type = SCM_RIGHTS THEN "fds"
                 ELSE IF level = SOL_SOCKET /\ type = SCM_CREDENTIALS THEN "creds"
                 ELSE "other",
        cmsg_level |-> level, cmsg_type |-> type,
        hdr |-> cmsg,
        data |-> CMSG_DATA(cmsg),
        data_len |-> IF len < CMSG_LEN(0) \/ len = TOO_BIG THEN TOO_BIG
                     ELSE len - CMSG_LEN(0)]

\* One next() of Messages / AncillaryMessages / IntoAncillaryMessages over
\* the first len bytes of buf, from cursor current: the header found, or
\* None. platform says which CMSG_NXTHDR the build has.
iterator_next(platform, buf, len, current) ==
    IF len = 0 THEN None
    ELSE LET cmsg == IF current = None THEN CMSG_FIRSTHDR(len)
                     ELSE IF platform = "linux"
                     THEN CMSG_NXTHDR(buf, len, current)
                     ELSE CMSG_NXTHDR_same(buf, len, current)
         IN IF cmsg = NULL THEN None
            ELSE IF current # None /\ current = cmsg THEN None
            ELSE cmsg

\* The next() of the reader's iterators on Linux.
messages_next(buf, len, current) == iterator_next("linux", buf, len, current)

\* All messages a walk from cursor current yields, in order.
RECURSIVE walk(_, _, _)
walk(buf, len, current) ==
    LET cmsg == messages_next(buf, len, current) IN
    IF cmsg = None THEN <<>>
    ELSE <<try_from_cmsghdr(buf, cmsg)>> \o walk(buf, len, cmsg)

\* AncillaryMessageReader::messages(): a fresh walk of buffer[..length].
messages(buf, len) == walk(buf, len, None)

\* A length counted in machine words.
FileDescriptors_len_words(m) == m.data_len \div SIZEOF_USIZE

\* FileDescriptors::len and get, for a message m over buf.
FileDescriptors_len(m) == m.data_len \div FD_SIZE
FileDescriptors_get(buf, m, index) ==
    IF index >= FileDescriptors_len(m) THEN None
    ELSE ReadI32(buf, m.data + index * FD_SIZE)

\* An OwnedFileDescriptors is a message m with its iterator position.
OwnedFileDescriptors_len(m) == (m.data_len - m.position) \div FD_SIZE

\* take_ownership that hands out whatever the slot holds, the sentinel too.
take_ownership_unchecked(buf, m, index) ==
    IF index >= OwnedFileDescriptors_len(m) THEN [fd |-> None, buffer |-> buf]
    ELSE LET ptr == m.data + index * FD_SIZE
         IN [fd |-> ReadI32(buf, ptr), buffer |-> WriteAt(buf, ptr, I32Bytes(-1))]

\* take_ownership that leaves the slot as it was.
take_ownership_unmarked(buf, m, index) ==
    IF index >= OwnedFileDescriptors_len(m) THEN [fd |-> None, buffer |-> buf]
    ELSE LET raw_fd == ReadI32(buf, m.data + index * FD_SIZE)
         IN [fd |-> IF raw_fd = -1 THEN None ELSE raw_fd, buffer |-> buf]

\* take_ownership that writes the sentinel as a 64-bit integer.
take_ownership_wide(buf, m, index) ==
    IF index >= OwnedFileDescriptors_len(m) THEN [fd |-> None, buffer |-> buf]
    ELSE LET ptr    == m.data + index * FD_SIZE
             raw_fd == ReadI32(buf, ptr)
         IN IF raw_fd = -1 THEN [fd |-> None, buffer |-> buf]
            ELSE [fd |-> raw_fd,
                  buffer |-> WriteAt(buf, ptr, I32Bytes(-1) \o I32Bytes(-1))]

\* take_ownership(index): [fd, buffer]; fd = None when nothing is handed out.
take_ownership(buf, m, index) ==
    IF index >= OwnedFileDescriptors_len(m) THEN [fd |-> None, buffer |-> buf]
    ELSE LET ptr    == m.data + index * FD_SIZE
             raw_fd == ReadI32(buf, ptr)
         IN IF raw_fd = -1 THEN [fd |-> None, buffer |-> buf]
            ELSE [fd |-> raw_fd, buffer |-> WriteAt(buf, ptr, I32Bytes(-1))]

\* Iterator::next of OwnedFileDescriptors: [fd, index, buffer, m].
RECURSIVE owned_next(_, _)
owned_next(buf, m) ==
    IF OwnedFileDescriptors_len(m) = 0
    THEN [fd |-> None, index |-> None, buffer |-> buf, m |-> m]
    ELSE LET t  == take_ownership(buf, m, m.position)
             m2 == [m EXCEPT !.position = @ + 1]
         IN IF t.fd # None
            THEN [fd |-> t.fd, index |-> m.position, buffer |-> t.buffer, m |-> m2]
            ELSE owned_next(t.buffer, m2)

\* Drop for OwnedFileDescriptors: `for fd in self { drop(fd) }`.
\* [buffer, m, closed]: closed are the descriptors it closed, in order.
RECURSIVE drop_owned(_, _, _)
drop_owned(buf, m, closed) ==
    LET r == owned_next(buf, m) IN
    IF r.fd = None THEN [buffer |-> r.buffer, m |-> r.m, closed |-> closed]
    ELSE drop_owned(r.buffer, r.m, Append(closed, r.fd))

\* An OwnedAncillaryMessage as it is yielded: position 0, nothing given yet.
owned_message(buf, cmsg) ==
    LET m == try_from_cmsghdr(buf, cmsg) IN
    [kind |-> m.kind, cmsg_level |-> m.cmsg_level, cmsg_type |-> m.cmsg_type,
     hdr |-> m.hdr, data |-> m.data, data_len |-> m.data_len,
     position |-> 0, alive |-> TRUE, given |-> {}, twice |-> FALSE]

\* Dropping a yielded message: only file descriptors have a Drop.
drop_message(buf, m) ==
    IF m.kind = "fds" THEN drop_owned(buf, m, <<>>)
    ELSE [buffer |-> buf, m |-> m, closed |-> <<>>]

\* Drop for IntoAncillaryMessages: `for message in self { drop(message) }`,
\* from cursor current. [buffer, current, closed].
RECURSIVE drop_into_messages(_, _, _, _)
drop_into_messages(buf, len, current, closed) ==
    LET cmsg == messages_next(buf, len, current) IN
    IF cmsg = None THEN [buffer |-> buf, current |-> current, closed |-> closed]
    ELSE LET d == drop_message(buf, owned_message(buf, cmsg))
         IN drop_into_messages(d.buffer, len, cmsg, closed \o d.closed)

\* close(fd) for each descriptor of fds, made by the library.
RECURSIVE closed_tab(_, _)
closed_tab(tab, fds) ==
    IF fds = <<>> THEN tab
    ELSE closed_tab([tab EXCEPT ![Head(fds)] = NoFile], Tail(fds))

RECURSIVE closed_own(_, _)
closed_own(own, fds) ==
    IF fds = <<>> THEN own
    ELSE closed_own([own EXCEPT ![Head(fds)] = "none"], Tail(fds))

\* The descriptors among fds that the reader does not own when they are
\* closed, one after the other.
RECURSIVE bad_closes(_, _)
bad_closes(own, fds) ==
    IF fds = <<>> THEN {}
    ELSE (IF own[Head(fds)] # "reader" THEN {Head(fds)} ELSE {})
         \cup bad_closes([own EXCEPT ![Head(fds)] = "none"], Tail(fds))

lib_close(fds) ==
    /\ fdtab' = closed_tab(fdtab, fds)
    /\ owner' = closed_own(owner, fds)
    /\ badClose' = badClose \cup bad_closes(owner, fds)

\* The descriptors still stored (not -1) in the rights messages of buf[..len].
stored_fds(buf, len) ==
    LET ms == messages(buf, len) IN
    UNION {{ReadI32(buf, ms[k].data + i * FD_SIZE) :
                i \in 0..(FileDescriptors_len(ms[k]) - 1)} :
           k \in {j \in 1..Len(ms) : ms[j].kind = "fds"}} \ {-1}

set_owner(own, fds, who) ==
    [fd \in DOMAIN own |-> IF fd \in fds THEN who ELSE own[fd]]

\* One attempt of recv_msg(b, [buffer], reader). The descriptors the reader
\* still held are forgotten: nothing closes them any more.
rd_recv ==
    /\ fault = "none" /\ rdState = "live"
    /\ IF queue = <<>>
       THEN /\ last' = Result("rd_recv", "rd", "WouldBlock", 0, <<>>, NoSent)
            /\ UNCHANGED <<rbuf, rlen, rtrunc, queue, fdtab, owner, leaked>>
       ELSE LET d   == Head(queue)
                k   == scm_detach_fds(rbuf, RdCap, d, fdtab)
                old == stored_fds(rbuf, rlen)
            IN /\ rbuf' = k.buffer
               /\ rlen' = k.controllen
               /\ rtrunc' = has_flag(msg_flags(k), MSG_CTRUNC)
               /\ queue' = Tail(queue)
               /\ fdtab' = install(fdtab, d, k.newfds)
               /\ owner' = own_as(set_owner(owner, old, "lost"), k.newfds, "reader")
               /\ leaked' = leaked \cup old
               /\ last' = Result("rd_recv", "rd", "ok", Len(d.payload),
                                 d.payload, d.sent)
    /\ UNCHANGED <<anc, rdState, into, msgs, badClose, fault, nops, ioVars, iter>>

\* What a walk of messages() reads through the borrowed views: the
\* descriptors of the rights messages (FileDescriptors::get on every index)
\* and the data bytes of the other messages, in order.
RECURSIVE borrowed_reads(_, _)
borrowed_reads(buf, ms) ==
    IF ms = <<>> THEN <<>>
    ELSE LET m == Head(ms) IN
         (IF m.kind = "fds"
          THEN [i \in 1..FileDescriptors_len(m) |->
                   FileDescriptors_get(buf, m, i - 1)]
          ELSE [i \in 1..m.data_len |-> buf[m.data + i - 1]])
         \o borrowed_reads(buf, Tail(ms))

\* reader.messages() is walked to its end and every message is read through
\* its borrowed view. All of it goes through shared references.
rd_messages ==
    /\ fault = "none" /\ rdState = "live"
    /\ LET ms == messages(rbuf, rlen) IN
       last' = Result("messages", "rd", "", Len(ms), borrowed_reads(rbuf, ms),
                      NoSent)
    /\ UNCHANGED <<anc, queue, fdtab, owner, rdVars, badClose, leaked, fault,
                   nops, ioVars, iter>>

\* into_messages(self): buffer and length are taken out of the reader, which
\* is then dropped with length 0.
into_messages ==
    /\ fault = "none" /\ rdState = "live"
    /\ rdState' = "consumed"
    /\ into' = [alive |-> TRUE, len |-> rlen, current |-> None]
    /\ rlen' = 0
    /\ last' = Result("into_messages", "rd", "", 0, <<>>, NoSent)
    /\ UNCHANGED <<anc, queue, fdtab, owner, rbuf, rtrunc, msgs, badClose,
                   leaked, fault, nops, ioVars, iter>>

\* IntoAncillaryMessages::next.
into_next ==
    /\ fault = "none" /\ into.alive
    /\ LET cmsg == messages_next(rbuf, into.len, into.current) IN
       IF cmsg = None
       THEN /\ last' = Result("into_next", "rd", "none", 0, <<>>, NoSent)
            /\ UNCHANGED <<into, msgs>>
       ELSE /\ into' = [into EXCEPT !.current = cmsg]
            /\ msgs' = Append(msgs, owned_message(rbuf, cmsg))
            /\ last' = Result("into_next", "rd", "some", Len(msgs) + 1, <<>>, NoSent)
    /\ UNCHANGED <<anc, queue, fdtab, owner, rbuf, rlen, rtrunc, rdState,
                   badClose, leaked, fault, nops, ioVars, iter>>

\* What handing descriptor fd of slot index to the caller changes.
hand_over(k, m, index, fd, buf) ==
    /\ rbuf' = buf
    /\ msgs' = [msgs EXCEPT ![k] = [m EXCEPT !.given = @ \cup {index},
                                             !.twice = @ \/ index \in m.given]]
    /\ owner' = [owner EXCEPT ![fd] = "caller"]

\* OwnedFileDescriptors::take_ownership(index) on the k-th yielded message.
take(k, index) ==
    /\ fault = "none" /\ msgs[k].alive /\ msgs[k].kind = "fds"
    /\ LET t == take_ownership(rbuf, msgs[k], index) IN
       IF t.fd = None
       THEN /\ last' = Result("take", "rd", "none", index, <<>>, NoSent)
            /\ UNCHANGED <<rbuf, msgs, owner>>
       ELSE /\ hand_over(k, msgs[k], index, t.fd, t.buffer)
            /\ last' = Result("take", "rd", "some", index, <<t.fd>>, NoSent)
    /\ UNCHANGED <<anc, queue, fdtab, rlen, rtrunc, rdState, into, badClose,
                   leaked, fault, nops, ioVars, iter>>

\* Iterator::next on the k-th yielded message.
fds_next(k) ==
    /\ fault = "none" /\ msgs[k].alive /\ msgs[k].kind = "fds"
    /\ LET r == owned_next(rbuf, msgs[k]) IN
       IF r.fd = None
       THEN /\ msgs' = [msgs EXCEPT ![k] = r.m]
            /\ last' = Result("next", "rd", "none", 0, <<>>, NoSent)
            /\ UNCHANGED <<rbuf, owner>>
       ELSE /\ hand_over(k, r.m, r.index, r.fd, r.buffer)
            /\ last' = Result("next", "rd", "some", r.index, <<r.fd>>, NoSent)
    /\ UNCHANGED <<anc, queue, fdtab, rlen, rtrunc, rdState, into, badClose,
                   leaked, fault, nops, ioVars, iter>>

\* drop of the k-th yielded message.
drop_msg(k) ==
    /\ fault = "none" /\ msgs[k].alive
    /\ LET d == drop_message(rbuf, msgs[k]) IN
       /\ rbuf' = d.buffer
       /\ msgs' = [msgs EXCEPT ![k] = [d.m EXCEPT !.alive = FALSE]]
       /\ lib_close(d.closed)
       /\ last' = Result("drop_msg", "rd", "", k, d.closed, NoSent)
    /\ UNCHANGED <<anc, queue, rlen, rtrunc, rdState, into, leaked, fault, nops, ioVars, iter>>

\* drop of the IntoAncillaryMessages.
drop_into ==
    /\ fault = "none" /\ into.alive
    /\ LET d == drop_into_messages(rbuf, into.len, into.current, <<>>) IN
       /\ rbuf' = d.buffer
       /\ into' = [into EXCEPT !.alive = FALSE, !.current = d.current]
       /\ lib_close(d.closed)
       /\ last' = Result("drop_into", "rd", "", 0, d.closed, NoSent)
    /\ UNCHANGED <<anc, queue, rlen, rtrunc, rdState, msgs, leaked, fault, nops, ioVars, iter>>

\* drop of the AncillaryMessageReader itself.
drop_reader ==
    /\ fault = "none" /\ rdState = "live"
    /\ rdState' = "dropped"
    /\ LET d == IF rlen > 0
                THEN drop_into_messages(rbuf, rlen, None, <<>>)
                ELSE [buffer |-> rbuf, current |-> None, closed |-> <<>>]
       IN /\ rbuf' = d.buffer
          /\ lib_close(d.closed)
          /\ last' = Result("drop_reader", "rd", "", 0, d.closed, NoSent)
    /\ UNCHANGED <<anc, queue, rlen, rtrunc, into, msgs, leaked, fault, nops, ioVars, iter>>

----------------------------------------------------------------------------
(* The borrowing iterators, Messages of a SocketAncillary and               *)
(* AncillaryMessages of an AncillaryMessageReader, over any content of the  *)
(* used part of the buffer: one or two headers written into 48 bytes, with  *)
(* any length field, and any used length.                                   *)

MaxCalls == 4       \* calls of next() on one iterator
MaxWalks == 2       \* iterators made by messages() on one buffer

\* The 8 bytes of a size_t: len is a multiple of 4, or negative for the size
\* 2^64 + len.
SizeBytes(len) ==
    IF len < 0 THEN I32Bytes(len) \o <<255, 255, 255, 255>>
    ELSE SizeBytesOfUnits(len \div 4)

\* (level, type) of the headers: rights, credentials, SCM_TIMESTAMP, and a
\* level that is not SOL_SOCKET.
HeaderKinds == {<<SOL_SOCKET, SCM_RIGHTS>>, <<SOL_SOCKET, SCM_CREDENTIALS>>,
                <<SOL_SOCKET, 29>>, <<41, SCM_RIGHTS>>}
SecondKinds == {<<SOL_SOCKET, SCM_RIGHTS>>, <<SOL_SOCKET, 29>>}
FirstLens   == {0, 8, 16, 20, 24, 64}
UsedLens    == {0, 8, 16, 24, 40, 48}

\* The length fields of the second header, which lies at offset off: the
\* last one is the size that wraps the walk around to the buffer's start.
SecondLens(off) == {0, 16, 24, -off}

header(h) == SizeBytes(h.len) \o I32Bytes(h.kind[1]) \o I32Bytes(h.kind[2])

\* 48 bytes, no two alike, with header h1 at offset 0 and h2 after it.
content(h1, h2) ==
    LET plain == [i \in 0..47 |-> 100 + i]
        first == WriteAt(plain, 0, header(h1))
    IN IF h1.len >= SIZEOF_CMSGHDR /\ CMSG_ALIGN(h1.len) + SIZEOF_CMSGHDR <= 48
       THEN WriteAt(first, CMSG_ALIGN(h1.len), header(h2))
       ELSE first

Contents ==
    {content([len |-> l1, kind |-> k1], [len |-> l2, kind |-> k2]) :
        <<l1, k1, l2, k2>> \in
            {x \in FirstLens \X HeaderKinds \X {0, 16, 24, -16, -24}
                        \X SecondKinds :
                 x[3] \in SecondLens(CMSG_ALIGN(x[1]))}}

\* AncillaryMessage::try_from_cmsghdr: as for the owned messages.
AncillaryMessage_try_from_cmsghdr(buf, cmsg) == try_from_cmsghdr(buf, cmsg)

\* AncillaryData::try_from_cmsghdr: Ok(ScmRights), Ok(ScmCredentials), or
\* Err(AncillaryError::Unknown { cmsg_level, cmsg_type }), without the data.
AncillaryData_try_from_cmsghdr(buf, cmsg) ==
    LET m == try_from_cmsghdr(buf, cmsg) IN
    IF m.cmsg_level = SOL_SOCKET
    THEN IF m.cmsg_type = SCM_RIGHTS THEN [m EXCEPT !.kind = "fds"]
         ELSE IF m.cmsg_type = SCM_CREDENTIALS THEN [m EXCEPT !.kind = "creds"]
         ELSE [m EXCEPT !.kind = "error", !.data = NULL, !.data_len = 0]
    ELSE [m EXCEPT !.kind = "error", !.data = NULL, !.data_len = 0]

\* AncillaryDataIter<T> over the data of message m: one unit of size bytes
\* after the other while size bytes are left; each unit is the bytes read.
\* A data slice that does not lie in buf[..len] yields what memory holds,
\* which is "wild" here.
AncillaryDataIter(buf, len, m, size) ==
    IF m.data_len = TOO_BIG \/ m.data + m.data_len > len THEN <<"wild">>
    ELSE [i \in 1..(m.data_len \div size) |->
            [j \in 1..size |-> buf[m.data + (i - 1) * size + j - 1]]]

\* What one item of Messages gives the caller: the kind, and the units of
\* ScmRights (RawFd) or ScmCredentials (ucred) as their bytes.
AncillaryData_units(buf, len, m) ==
    [kind |-> m.kind,
     units |-> IF m.kind = "fds" THEN AncillaryDataIter(buf, len, m, FD_SIZE)
               ELSE IF m.kind = "creds"
               THEN AncillaryDataIter(buf, len, m, CREDS_SIZE)
               ELSE <<>>]

\* All items that SocketAncillary::messages() yields over buf[..len].
RECURSIVE Messages_walk(_, _, _)
Messages_walk(buf, len, current) ==
    LET cmsg == iterator_next("linux", buf, len, current) IN
    IF cmsg = None THEN <<>>
    ELSE <<AncillaryData_units(buf, len,
                               AncillaryData_try_from_cmsghdr(buf, cmsg))>>
         \o Messages_walk(buf, len, cmsg)

SocketAncillary_messages(a) == Messages_walk(a.buffer, a.length, None)

\* Whether try_from_cmsghdr's cmsg_len - CMSG_LEN(0) overflows.
data_len_overflows(buf, cmsg) ==
    cmsg_len(buf, cmsg) >= 0 /\ cmsg_len(buf, cmsg) < CMSG_LEN(0)

\* messages(): a new iterator over buffer[..length].
new_messages(kind, platform, buf, length) ==
    [kind |-> kind, platform |-> platform,
     buffer |-> [i \in 0..(length - 1) |-> buf[i]],
     current |-> None, yielded |-> <<>>, over |-> FALSE, earlier |-> <<>>]

\* One call of next(). Where a sum or a difference overflows, the build
\* with overflow checks panics and the other one goes on with the wrapped
\* value.
iter_next ==
    /\ fault = "none" /\ iter.kind # "none"
    /\ Len(iter.yielded) < MaxCalls
    /\ LET len  == IF iter.buffer = <<>> THEN 0
                    ELSE Cardinality(DOMAIN iter.buffer)
           cmsg == iterator_next(iter.platform, iter.buffer, len, iter.current)
           item == IF iter.kind = "Messages"
                   THEN AncillaryData_try_from_cmsghdr(iter.buffer, cmsg)
                   ELSE AncillaryMessage_try_from_cmsghdr(iter.buffer, cmsg)
           overflows ==
               \/ /\ iter.current # None /\ iter.platform = "linux"
                  /\ CMSG_NXTHDR_overflows(iter.buffer, len, iter.current)
               \/ cmsg # None /\ data_len_overflows(iter.buffer, cmsg)
       IN \/ /\ overflows
             /\ fault' = "panic"
             /\ UNCHANGED iter
          \/ /\ fault' = "none"
             /\ iter' = IF cmsg = None THEN [iter EXCEPT !.over = TRUE]
                        ELSE [iter EXCEPT !.current = cmsg,
                                          !.yielded = Append(@, item)]
    /\ UNCHANGED <<anc, queue, fdtab, owner, rdVars, badClose, leaked, last,
                   nops, ioVars>>

\* messages() on the buffer that iterator it walks: the new iterator borrows
\* the same bytes and has a cursor of its own. (messages_resumed: one that
\* goes on from where it stands.)
messages_resumed(it) == [it EXCEPT !.yielded = <<>>, !.over = FALSE]
messages_of(it) ==
    new_messages(it.kind, it.platform, it.buffer,
                 IF it.buffer = <<>> THEN 0 ELSE Cardinality(DOMAIN it.buffer))

\* messages() is called again, however far the iterator before it has come;
\* what that one yielded is kept in `earlier`.
call_messages ==
    /\ fault = "none" /\ iter.kind # "none"
    /\ Len(iter.earlier) + 1 < MaxWalks
    /\ iter' = [messages_of(iter) EXCEPT
                  !.earlier = Append(iter.earlier, [yielded |-> iter.yielded,
                                                    over |-> iter.over])]
    /\ UNCHANGED <<anc, queue, fdtab, owner, rdVars, badClose, leaked, last,
                   nops, ioVars, fault>>

----------------------------------------------------------------------------
(* The async operations of UnixSeqpacket on the connected pair (a, b):     *)
(* tasks send on a and receive on b. Each operation is the loop            *)
(*     loop { guard = io.writable().await?;                                *)
(*            match guard.try_io(attempt) { Ok(r) => return r,             *)
(*                                          Err(_) => continue } }         *)
(* over the readiness that the runtime keeps for the socket: a ready flag  *)
(* and the tick of the event that set it, per direction.                   *)

MaxRounds == 2      \* operations the tasks "s1" and "r1" make one after another
RecvBuf   == 1024   \* length of the buffer a receive is given

TaskIds   == {"s1", "s2", "r1", "r2"}
Senders   == {"s1", "s2"}
Receivers == TaskIds \ Senders
Directions == {"r", "w"}

\* The operation each task calls, the readiness it waits for, and how many
\* times it calls it.
operation(t) ==
    CASE t = "s1" -> "send"
      [] t = "s2" -> "send_vectored"
      [] t = "r1" -> "recv"
      [] t = "r2" -> "recv_vectored"
direction(t) == IF t \in Senders THEN "w" ELSE "r"
rounds(t) == IF t \in {"s1", "r1"} THEN MaxRounds ELSE 1

\* The k-th datagram of sender t: k bytes, no two datagrams alike.
message(t, k) == [i \in 1..k |-> (IF t = "s1" THEN 10 ELSE 20) + k]

\* What the reactor does with a readiness event, and what the guard of an
\* attempt that would block does: readiness is cleared unless a newer event
\* has set it since the guard was made.
set_readiness(rdy) == [ready |-> TRUE, tick |-> rdy.tick + 1]
clear_ready_stale(rdy, tick) == [rdy EXCEPT !.ready = FALSE]
clear_ready_never(rdy, tick) == rdy
clear_ready(rdy, tick) ==
    IF rdy.tick = tick THEN [rdy EXCEPT !.ready = FALSE] ELSE rdy

\* try_io: "Err" (would block, the loop continues) or "Ok" (result is the
\* operation's result).
try_io_any(result) == "Ok"
try_io_success_retried(result) ==
    IF result.err \in {"WouldBlock", "ok"} THEN "Err" ELSE "Ok"
try_io_errors(result) == IF result.err # "ok" THEN "Err" ELSE "Ok"
try_io(result) == IF result.err = "WouldBlock" THEN "Err" ELSE "Ok"

\* check_returned_size: the io::Result of a syscall that returned ret, with
\* errno as the last OS error. data: the bytes a receive wrote to its buffer.
check_returned_size(ret, errno, data) ==
    IF ret < 0 THEN [err |-> errno, size |-> 0, data |-> <<>>]
    ELSE [err |-> "ok", size |-> ret, data |-> data]

\* One send attempt on a: [ret, errno, data, queue, events]. ret is the byte
\* count or -1, events the readiness events the kernel raises.
send_syscall(payload, q, isShut) ==
    LET r == IF isShut THEN [err |-> "EPIPE", dgram |-> <<>>]
             ELSE sendmsg(<<>>, 0, payload, <<>>, q)
    IN IF r.err = "ok"
       THEN [ret |-> Len(payload), errno |-> "", data |-> <<>>,
             queue |-> Append(q, [payload |-> r.dgram.payload,
                                  files |-> r.dgram.files,
                                  sent |-> [payload |-> payload,
                                            added |-> <<>>]]),
             events |-> {"r"}]
       ELSE [ret |-> -1, errno |-> r.err, data |-> <<>>, queue |-> q,
             events |-> {}]

\* The datagram a receive takes from the socket's queue, and what stays.
skb_peek(q) == [d |-> Head(q), rest |-> q]
skb_dequeue_tail(q) == [d |-> q[Len(q)], rest |-> SubSeq(q, 1, Len(q) - 1)]
skb_dequeue(q) == [d |-> Head(q), rest |-> Tail(q)]

\* A receive that finds no end of the stream: it would block on an empty
\* queue whatever the state of the peer.
recv_syscall_no_eof(len, q, isShut) ==
    IF q = <<>>
    THEN [ret |-> -1, errno |-> "WouldBlock", data |-> <<>>, queue |-> q,
          events |-> {}]
    ELSE LET k == skb_dequeue(q)
             n == Min(Len(k.d.payload), len)
         IN [ret |-> n, errno |-> "", data |-> SubSeq(k.d.payload, 1, n),
             queue |-> k.rest, events |-> {"w"}]

\* One receive attempt on b into len bytes: [ret, errno, data, queue,
\* events]. After the shutdown an empty queue is the end of the stream.
recv_syscall(len, q, isShut) ==
    IF q = <<>>
    THEN [ret |-> IF isShut THEN 0 ELSE -1,
          errno |-> IF isShut THEN "" ELSE "WouldBlock",
          data |-> <<>>, queue |-> q, events |-> {}]
    ELSE LET k == skb_dequeue(q)
             n == Min(Len(k.d.payload), len)
         IN [ret |-> n, errno |-> "", data |-> SubSeq(k.d.payload, 1, n),
             queue |-> k.rest, events |-> {"w"}]

syscall(t) ==
    IF t \in Senders
    THEN send_syscall(message(t, tasks[t].round + 1), queue, shut)
    ELSE recv_syscall(RecvBuf, queue, shut \/ hungUp)

ioFrame == UNCHANGED <<anc, fdtab, owner, rdVars, badClose, leaked, fault,
                       last, nops, iter, conn, lsn, poll>>

\* The task calls its operation; nothing is sent on a once it was dropped.
call(t) ==
    /\ tasks[t].pc = "idle" /\ tasks[t].round < rounds(t)
    /\ t \in Senders => ~hungUp
    /\ tasks' = [tasks EXCEPT ![t].pc = "await", ![t].blocked = FALSE,
                              ![t].prev = 0]
    /\ UNCHANGED <<queue, ready, pending, shut, hungUp>>
    /\ ioFrame

\* io.writable().await / io.readable().await resolves with a guard.
await_ready(t) ==
    /\ tasks[t].pc = "await" /\ ready[direction(t)].ready
    /\ tasks' = [tasks EXCEPT ![t].pc = "guard",
                              ![t].guard = ready[direction(t)].tick]
    /\ UNCHANGED <<queue, ready, pending, shut, hungUp>>
    /\ ioFrame

\* The attempt inside try_io, and the return of its result.
attempt(t) ==
    /\ tasks[t].pc = "guard"
    /\ LET sys    == syscall(t)
           result == check_returned_size(sys.ret, sys.errno, sys.data)
       IN /\ IF try_io(result) = "Err"
             THEN tasks' = [tasks EXCEPT ![t].pc = "blocked"]
             ELSE tasks' = [tasks EXCEPT
                      ![t].pc = IF tasks[t].round + 1 = rounds(t)
                                THEN "done" ELSE "idle",
                      ![t].round = @ + 1, ![t].guard = 0,
                      ![t].results = Append(@, result)]
          /\ queue' = sys.queue
          /\ pending' = pending \cup sys.events
    /\ UNCHANGED <<ready, shut, hungUp>>
    /\ ioFrame

\* The rest of try_io after an attempt that would block, and `continue`.
continue(t) ==
    /\ tasks[t].pc = "blocked"
    /\ ready' = [ready EXCEPT
                   ![direction(t)] = clear_ready(@, tasks[t].guard)]
    /\ tasks' = [tasks EXCEPT ![t].pc = "await", ![t].prev = tasks[t].guard,
                              ![t].guard = 0, ![t].blocked = TRUE]
    /\ UNCHANGED <<queue, pending, shut, hungUp>>
    /\ ioFrame

\* The reactor delivers a readiness event of the kernel.
reactor(dir) ==
    /\ dir \in pending
    /\ ready' = [ready EXCEPT ![dir] = set_readiness(@)]
    /\ pending' = pending \ {dir}
    /\ UNCHANGED <<queue, tasks, shut, hungUp>>
    /\ ioFrame

\* What the kernel gets from an operation that is dropped while it waits:
\* the future is at its only await, before try_io, and no syscall is made.
\* (syscall_discarded: the attempt is made and its result dropped.)
syscall_discarded(t) == syscall(t)
syscall_never_made(t) ==
    [ret |-> -1, errno |-> "dropped", data |-> <<>>, queue |-> queue,
     events |-> {}]

\* The future of the task's operation is dropped while it waits for
\* readiness; the task goes on after it.
drop_operation(t) ==
    /\ tasks[t].pc = "await"
    /\ LET sys == syscall_never_made(t) IN
       /\ tasks' = [tasks EXCEPT
                      ![t].pc = IF tasks[t].round + 1 = rounds(t)
                                THEN "done" ELSE "idle",
                      ![t].round = @ + 1, ![t].prev = 0,
                      ![t].results = Append(@, [err |-> "dropped", size |-> 0,
                                                data |-> <<>>])]
       /\ queue' = sys.queue
       /\ pending' = pending \cup sys.events
    /\ UNCHANGED <<ready, shut, hungUp>>
    /\ ioFrame

\* Socket a is dropped, which closes it: no operation is using it. What is
\* queued stays to be received; b is reported readable (and hung up).
close_peer ==
    /\ ~hungUp /\ ~shut
    /\ \A t \in Senders : tasks[t].pc \in {"idle", "done"}
    /\ hungUp' = TRUE
    /\ pending' = pending \cup {"r"}
    /\ UNCHANGED <<queue, tasks, ready, shut>>
    /\ ioFrame

\* b.shutdown(Shutdown::Both).
shutdown ==
    /\ ~shut
    /\ shut' = TRUE
    /\ pending' = pending \cup Directions
    /\ UNCHANGED <<queue, tasks, ready, hungUp>>
    /\ ioFrame

----------------------------------------------------------------------------
(* Owned descriptors on the sending side. "add owned fd" is the operation   *)
(* of the specification; the source has no code for it. It is modelled from *)
(* the specification's words: the descriptors handed over belong to the     *)
(* buffer, and after a successful transmit they are closed locally and the  *)
(* buffer is consumed. The transmit itself is send_msg.                     *)

OwnedFdLists == {<<3>>, <<4>>, <<4, 3>>}

RECURSIVE owned_items(_)
owned_items(added) ==
    IF added = <<>> THEN <<>>
    ELSE (IF Head(added).kind = "owned" THEN Head(added).items ELSE <<>>)
         \o owned_items(Tail(added))

\* The descriptors the sender closes after an attempt that returned ret.
closed_by_any_attempt(ret, a) == owned_items(a.added)
closed_by_transmit(ret, a) ==
    IF ret = "ok" THEN owned_items(a.added) ELSE <<>>

\* "add owned fd" on object o: the caller hands over descriptors it owns.
add_owned_fds(o, fds) ==
    /\ Step
    /\ \A i \in 1..Len(fds) : owner[fds[i]] = "app"
    /\ add(o, "add_owned_fds", FdSource(fds), SCM_RIGHTS,
           [kind |-> "owned", items |-> fds])
    /\ owner' = IF last'.ret = "true" THEN own_as(owner, fds, "writer")
                ELSE owner
    /\ UNCHANGED <<queue, fdtab, rdVars, badClose, leaked>>

\* One attempt of send_msg(a, [payload], anc[o]) with a buffer that owns
\* descriptors, and what follows it.
send_owned(o, payload) ==
    LET r == sendmsg(anc[o].buffer, anc[o].length, payload, fdtab, queue)
        closed == closed_by_transmit(r.err, anc[o])
    IN
    /\ Step
    /\ owned_items(anc[o].added) # <<>>
    /\ anc' = [anc EXCEPT ![o] = IF r.err = "ok" THEN SocketAncillary_clear(@)
                                 ELSE [@ EXCEPT !.truncated = FALSE]]
    /\ queue' = IF r.err = "ok"
                THEN Append(queue, [payload |-> r.dgram.payload,
                                    files |-> r.dgram.files,
                                    sent |-> [payload |-> payload,
                                             added |-> anc[o].added]])
                ELSE queue
    /\ fdtab' = closed_tab(fdtab, closed)
    /\ owner' = closed_own(owner, closed)
    /\ last' = Result("send_owned", o, r.err,
                      IF r.err = "ok" THEN Len(payload) ELSE 0, <<>>,
                      [payload |-> payload, added |-> anc[o].added])
    /\ UNCHANGED <<rdVars, badClose, leaked, fault>>

----------------------------------------------------------------------------
(* A connected pair (a, b) used through split(): ReadHalf and WriteHalf of  *)
(* each end, data in both directions, and the kernel's shutdown state.      *)
(* One attempt per call (poll_send / poll_recv).                            *)

Ends == {"a", "b"}
peer(x) == IF x = "a" THEN "b" ELSE "a"
HalfPayloads == {<<1>>, <<2, 2>>}

\* down: sk_shutdown of each end, a set of "RCV" (RCV_SHUTDOWN) and "SEND"
\* (SEND_SHUTDOWN); rq: the receive queue of each end; called: the halves
\* of each end whose shutdown() was called; last: the last call's result.
NoConn == [down |-> [x \in Ends |-> {}], rq |-> [x \in Ends |-> <<>>],
           called |-> [x \in Ends |-> {}],
           last |-> [op |-> "split", x |-> "", ret |-> "", data |-> <<>>]]

\* shutdown(fd, how) on end x of a connected pair: the direction is shut
\* down on x, and the opposite direction on its peer.
unix_shutdown(down, x, how) ==
    LET mode == CASE how = "Read" -> {"RCV"}
                  [] how = "Write" -> {"SEND"}
                  [] how = "Both" -> {"RCV", "SEND"}
        peer_mode == (IF "RCV" \in mode THEN {"SEND"} ELSE {})
                     \cup (IF "SEND" \in mode THEN {"RCV"} ELSE {})
    IN [down EXCEPT ![x] = @ \cup mode, ![peer(x)] = @ \cup peer_mode]

\* UnixSeqpacket::shutdown(how), and the shutdown() of the two halves.
UnixSeqpacket_shutdown(down, x, how) == unix_shutdown(down, x, how)
ReadHalf_shutdown(down, x)  == UnixSeqpacket_shutdown(down, x, "Read")
WriteHalf_shutdown(down, x) == UnixSeqpacket_shutdown(down, x, "Read")

\* One send attempt on end x: the error, or "ok".
half_send_result(c, x) ==
    IF "SEND" \in c.down[x] \/ "RCV" \in c.down[peer(x)] THEN "EPIPE"
    ELSE IF Len(c.rq[peer(x)]) >= MaxQueue THEN "WouldBlock"
    ELSE "ok"

\* WriteHalf(x).poll_send, one attempt.
half_send(x, payload) ==
    /\ LET ret == half_send_result(conn, x) IN
       conn' = [conn EXCEPT
                  !.rq[peer(x)] = IF ret = "ok" THEN Append(@, payload) ELSE @,
                  !.last = [op |-> "send", x |-> x, ret |-> ret,
                            data |-> payload]]
    /\ UNCHANGED <<anc, queue, fdtab, owner, rdVars, badClose, leaked, fault,
                   last, nops, tasks, ready, pending, shut, hungUp, lsn, poll,
                   iter>>

\* ReadHalf(x).poll_recv, one attempt: a datagram, or Ok(0) once the read
\* direction is shut down, or WouldBlock.
half_recv(x) ==
    /\ conn' = [conn EXCEPT
                  !.rq[x] = IF @ = <<>> THEN @ ELSE Tail(@),
                  !.last = [op |-> "recv", x |-> x,
                            ret |-> IF conn.rq[x] # <<>> \/ "RCV" \in conn.down[x]
                                    THEN "ok" ELSE "WouldBlock",
                            data |-> IF conn.rq[x] = <<>> THEN <<>>
                                     ELSE Head(conn.rq[x])]]
    /\ UNCHANGED <<anc, queue, fdtab, owner, rdVars, badClose, leaked, fault,
                   last, nops, tasks, ready, pending, shut, hungUp, lsn, poll,
                   iter>>

\* ReadHalf(x).shutdown() and WriteHalf(x).shutdown().
half_shutdown(x, half) ==
    /\ conn' = [conn EXCEPT
                  !.down = IF half = "ReadHalf" THEN ReadHalf_shutdown(@, x)
                           ELSE WriteHalf_shutdown(@, x),
                  !.called[x] = @ \cup {half},
                  !.last = [op |-> "shutdown", x |-> x, ret |-> "ok",
                            data |-> <<>>]]
    /\ UNCHANGED <<anc, queue, fdtab, owner, rdVars, badClose, leaked, fault,
                   last, nops, tasks, ready, pending, shut, hungUp, lsn, poll,
                   iter>>

----------------------------------------------------------------------------
(* UnixSeqpacketListener: bind(), then one task that keeps calling          *)
(*     accept():  loop { let mut ready_guard = self.io.readable().await?;   *)
(*                       match ready_guard.try_io(|inner| accept()) {       *)
(*                           Ok(x) => break x?,                             *)
(*                           Err(_would_block) => continue } }              *)
(* and clients that connect to the listener's address.                      *)

MaxClients == 3         \* clients that connect, and calls of accept()
MaxName == 3            \* bytes of an address after its first byte
LISTEN_BACKLOG == 128   \* the backlog bind() asks for
Clients == 1..MaxClients

\* struct sockaddr_un: sun_family (2 bytes), then sun_path[108].
SUN_PATH_OFFSET == 2
SUN_PATH_LEN == 108

lsnFrame == UNCHANGED <<anc, queue, fdtab, owner, rdVars, badClose, leaked,
                        fault, last, nops, tasks, ready, pending, shut,
                        hungUp, conn, poll, iter>>

\* A socket address: its length and the bytes of sun_path.
NoName == [len |-> 0, sun_path |-> <<>>]
NoAddr == [err |-> "none", path |-> <<>>]

\* The addresses a listener is bound to: filesystem paths (no null byte in
\* them) and abstract names (a null byte first), which may hold and end
\* with null bytes. Bytes 1 and 97 ('a') stand for all other bytes.
RECURSIVE Strings(_, _)
Strings(alphabet, n) ==
    IF n = 0 THEN {<<>>}
    ELSE LET shorter == Strings(alphabet, n - 1)
         IN shorter \cup {Append(w, b) : w \in shorter, b \in alphabet}
PathAddresses == Strings({1, 97}, MaxName + 1) \ {<<>>}
AbstractAddresses == {<<0>> \o w : w \in Strings({0, 1, 97}, MaxName)}
Addresses == PathAddresses \cup AbstractAddresses

\* socket2::SockAddr::unix(path): the bytes are copied into a zeroed
\* sun_path; the length counts the terminating null byte of a path name
\* and nothing beyond the bytes of an abstract name.
SockAddr_unix(bytes) ==
    IF (IF bytes # <<>> /\ bytes[1] = 0
        THEN Len(bytes) > SUN_PATH_LEN ELSE Len(bytes) >= SUN_PATH_LEN)
    THEN [err |-> "InvalidInput", len |-> 0, sun_path |-> <<>>]
    ELSE [err |-> "ok",
          len |-> SUN_PATH_OFFSET + Len(bytes)
                  + (IF bytes # <<>> /\ bytes[1] # 0 THEN 1 ELSE 0),
          sun_path |-> [i \in 1..SUN_PATH_LEN |->
                          IF i <= Len(bytes) THEN bytes[i] ELSE 0]]

\* strlen() of sun_path.
strlen(sun_path) ==
    Cardinality({i \in 1..Len(sun_path) :
                   \A j \in 1..i : sun_path[j] # 0})

\* socket.bind(&address), and the name getsockname() returns afterwards: a
\* path name up to its first null byte and that byte, an abstract name as
\* it was given.
bind_syscall(sa) ==
    IF sa.sun_path[1] # 0
    THEN [len |-> SUN_PATH_OFFSET + strlen(sa.sun_path) + 1,
          sun_path |-> sa.sun_path]
    ELSE [len |-> sa.len, sun_path |-> sa.sun_path]

\* address_path(address): the bytes of sun_path that the length covers,
\* without the last one when it is a null byte.
address_path(sa) ==
    LET path == SubSeq(sa.sun_path, 1, sa.len - SUN_PATH_OFFSET) IN
    IF path # <<>> /\ path[Len(path)] = 0
    THEN [err |-> "ok", path |-> SubSeq(path, 1, Len(path) - 1)]
    ELSE [err |-> "ok", path |-> path]

\* UnixSeqpacketListener::bind(address).
bind(address) ==
    /\ lsn.name = NoName
    /\ LET sa == SockAddr_unix(address) IN
       /\ sa.err = "ok"
       /\ lsn' = [lsn EXCEPT !.address = address, !.name = bind_syscall(sa)]
    /\ lsnFrame

\* UnixSeqpacketListener::local_addr().
local_addr ==
    /\ lsn.name # NoName
    /\ lsn' = [lsn EXCEPT !.local = address_path(lsn.name)]
    /\ lsnFrame

\* backlog: the connections made and not yet accepted, each named by its
\* client; rdy / event: the readiness the runtime keeps for the listener and
\* the kernel's event not yet delivered; pc, guard, round, accepted: the
\* accepting task and the results of its accept() calls; blocked: an
\* attempt of the task found no connection; client: the state
\* of each client's socket; sent: the accepted sockets the server sent on;
\* rq: the receive queue of each client; got: what each client received;
\* address: the address bind() was given, when the model follows it; name:
\* the name the kernel holds for the socket; local: the last result of
\* local_addr(); result: what connect() returned to each client.
NoListener ==
    [backlog |-> <<>>, rdy |-> [ready |-> FALSE, tick |-> 0],
     event |-> FALSE, pc |-> "idle", guard |-> 0, round |-> 0,
     blocked |-> FALSE,
     accepted |-> <<>>, client |-> [c \in Clients |-> "new"],
     sent |-> {}, rq |-> [c \in Clients |-> <<>>],
     got |-> [c \in Clients |-> <<>>],
     address |-> <<>>, name |-> NoName, local |-> NoAddr,
     result |-> [c \in Clients |-> "none"]]

\* connect(2) of a non-blocking socket to a listener whose queue is q.
connect_syscall(q, c, backlog) ==
    IF Len(q) > backlog THEN [err |-> "WouldBlock", backlog |-> q]
    ELSE [err |-> "ok", backlog |-> Append(q, c)]

\* What connect() returns after connect(2) returned err: an error other
\* than WouldBlock is returned as it is; otherwise the socket is wrapped and
\* Ok(socket) is returned once it is writable, which a socket that has sent
\* nothing is, connected or not.
connect_result(err) == IF err \in {"ok", "WouldBlock"} THEN "Ok" ELSE err

\* UnixSeqpacket::connect by client c: the connection is made when it is
\* queued at the listener, which becomes readable.
client_connect(c) ==
    /\ lsn.client[c] = "new"
    /\ LET sys == connect_syscall(lsn.backlog, c, LISTEN_BACKLOG) IN
       lsn' = [lsn EXCEPT
                 !.backlog = sys.backlog,
                 !.event = @ \/ sys.err = "ok",
                 !.client[c] = IF sys.err = "ok" THEN "connected"
                               ELSE "unconnected",
                 !.result[c] = connect_result(sys.err)]
    /\ lsnFrame

\* A client of another process connects to the listener: it is queued
\* unless the listener's queue is full. Such clients are named 0.
connect_others ==
    /\ LET sys == connect_syscall(lsn.backlog, 0, LISTEN_BACKLOG) IN
       /\ sys.err = "ok"
       /\ lsn' = [lsn EXCEPT !.backlog = sys.backlog, !.event = TRUE]
    /\ lsnFrame

\* accept(2) on a non-blocking listener: the oldest connection, or
\* WouldBlock. accept_peek: the oldest connection, left in the queue.
accept_peek(q) ==
    IF q = <<>> THEN [err |-> "WouldBlock", peer |-> 0, backlog |-> q]
    ELSE [err |-> "ok", peer |-> Head(q), backlog |-> q]
accept_syscall(q) ==
    IF q = <<>> THEN [err |-> "WouldBlock", peer |-> 0, backlog |-> q]
    ELSE [err |-> "ok", peer |-> Head(q), backlog |-> Tail(q)]

\* The task calls listener.accept().
accept_call ==
    /\ lsn.pc = "idle" /\ lsn.round < MaxClients
    /\ lsn' = [lsn EXCEPT !.pc = "await"]
    /\ lsnFrame

\* self.io.readable().await resolves with a guard.
accept_ready ==
    /\ lsn.pc = "await" /\ lsn.rdy.ready
    /\ lsn' = [lsn EXCEPT !.pc = "guard", !.guard = lsn.rdy.tick]
    /\ lsnFrame

\* The attempt inside try_io, and the return of the accepted socket.
accept_attempt ==
    /\ lsn.pc = "guard"
    /\ LET sys == accept_syscall(lsn.backlog) IN
       IF try_io(sys) = "Err"
       THEN lsn' = [lsn EXCEPT !.pc = "blocked"]
       ELSE lsn' = [lsn EXCEPT !.pc = "idle", !.guard = 0, !.round = @ + 1,
                               !.backlog = sys.backlog,
                               !.accepted = Append(@, [err |-> sys.err,
                                                       peer |-> sys.peer])]
    /\ lsnFrame

\* The rest of try_io after an attempt that would block, and `continue`.
accept_continue ==
    /\ lsn.pc = "blocked"
    /\ lsn' = [lsn EXCEPT !.pc = "await", !.guard = 0, !.blocked = TRUE,
                          !.rdy = clear_ready(@, lsn.guard)]
    /\ lsnFrame

\* The reactor delivers the kernel's event to the listener's readiness.
accept_reactor ==
    /\ lsn.event
    /\ lsn' = [lsn EXCEPT !.event = FALSE, !.rdy = set_readiness(@)]
    /\ lsnFrame

\* peer.send() on the k-th accepted socket: the datagram, which names the
\* socket, is queued at the other end of that socket's connection.
server_send(k) ==
    /\ k \in 1..Len(lsn.accepted) /\ k \notin lsn.sent
    /\ lsn.accepted[k].err = "ok"
    /\ Len(lsn.rq[lsn.accepted[k].peer]) < MaxQueue
    /\ lsn' = [lsn EXCEPT !.sent = @ \cup {k},
                          !.rq[lsn.accepted[k].peer] = Append(@, <<k>>)]
    /\ lsnFrame

\* peer.recv() of client c, when a datagram is there.
client_recv(c) ==
    /\ lsn.client[c] = "connected" /\ lsn.rq[c] # <<>>
    /\ lsn' = [lsn EXCEPT !.rq[c] = Tail(@),
                          !.got[c] = Append(@, Head(lsn.rq[c]))]
    /\ lsnFrame

----------------------------------------------------------------------------
(* The poll functions: poll_send on a, poll_recv on b (two tasks) and       *)
(* poll_accept on a listener, each called by a task through its Context:    *)
(*     loop { let mut ready_guard = ready!(self.io.poll_write_ready(cx)?);  *)
(*            match ready_guard.try_io(attempt) {                           *)
(*                Ok(result) => return Poll::Ready(result),                 *)
(*                Err(_would_block) => continue } }                         *)
(* poll_*_ready(cx) returns Pending when the direction is not ready, after  *)
(* it has stored the waker of cx; the runtime holds one waker for each      *)
(* direction of a socket ("only the last task calling this function will be *)
(* woken up").                                                              *)

MaxAccepts == 2     \* connections made to the listener, and poll_accept calls

PollIds == {"ps", "pr1", "pr2", "pa"}
PollDirections == {"w", "r", "l"}
NoWaker == "none"

\* The direction each task polls: a writable, b readable, the listener
\* readable; and the number of operations it makes.
poll_direction(t) ==
    CASE t = "ps" -> "w"
      [] t \in {"pr1", "pr2"} -> "r"
      [] t = "pa" -> "l"
poll_rounds(t) ==
    CASE t = "ps" -> MaxRounds
      [] t \in {"pr1", "pr2"} -> 1
      [] t = "pa" -> MaxAccepts

\* t: each task's place in its poll function (pc), the tick of its guard,
\* the operations it finished (round), whether it was woken since it
\* returned Pending, whether its attempt failed since it was called
\* (blocked), and whether another task's waker replaced its own (lost);
\* rdy, event: the readiness of each direction and the kernel's events not
\* yet delivered; waker: the waker stored for each direction; rq: the
\* datagrams queued from a to b; backlog, made: the connections waiting at
\* the listener and the connections made.
NoPoll ==
    [t |-> [x \in PollIds |-> [pc |-> "idle", guard |-> 0, round |-> 0,
                               woken |-> FALSE, blocked |-> FALSE,
                               lost |-> FALSE]],
     rdy |-> [d \in PollDirections |-> [ready |-> FALSE, tick |-> 0]],
     event |-> {"w"},
     waker |-> [d \in PollDirections |-> NoWaker],
     rq |-> <<>>, backlog |-> <<>>, made |-> 0]

pollFrame == UNCHANGED <<anc, queue, fdtab, owner, rdVars, badClose, leaked,
                         fault, last, nops, tasks, ready, pending, shut,
                         hungUp, conn, lsn, iter>>

\* poll_*_ready(cx) on a direction that is not ready: the waker of cx is
\* stored for the direction. register_never: it is not.
register_never(waker, dir, t) == waker
register(waker, dir, t) == [waker EXCEPT ![dir] = t]

\* The attempt of task t: [err, rq, backlog, events].
poll_syscall(t) ==
    IF t = "pa"
    THEN LET sys == accept_syscall(poll.backlog) IN
         [err |-> sys.err, rq |-> poll.rq, backlog |-> sys.backlog,
          events |-> {}]
    ELSE LET sys == IF t = "ps"
                    THEN send_syscall(message("s1", poll.t[t].round + 1),
                                      poll.rq, FALSE)
                    ELSE recv_syscall(RecvBuf, poll.rq, FALSE)
         IN [err |-> check_returned_size(sys.ret, sys.errno, sys.data).err,
             rq |-> sys.queue, backlog |-> poll.backlog,
             events |-> sys.events]

\* The executor polls the future of task t: for the first time, or after
\* its waker was woken. The task's poll function (poll_send of "ps",
\* poll_recv of "pr1" and "pr2", poll_accept of "pa") then runs in the
\* steps poll_ready, poll_attempt and poll_continue.
poll_call(t) ==
    /\ \/ poll.t[t].pc = "idle" /\ poll.t[t].round < poll_rounds(t)
       \/ poll.t[t].pc = "parked" /\ poll.t[t].woken
    /\ poll' = [poll EXCEPT !.t[t].pc = "poll", !.t[t].woken = FALSE,
                            !.t[t].lost = FALSE,
                            !.t[t].blocked = IF poll.t[t].pc = "idle"
                                             THEN FALSE ELSE @]
    /\ pollFrame

\* ready!(self.io.poll_write_ready(cx)?) / poll_read_ready: a guard, or the
\* waker is stored and the function returns Pending.
poll_ready(t) ==
    /\ poll.t[t].pc = "poll"
    /\ LET d == poll_direction(t)
           before == poll.waker[d]
       IN IF poll.rdy[d].ready
          THEN poll' = [poll EXCEPT !.t[t].pc = "guard",
                                    !.t[t].guard = poll.rdy[d].tick]
          ELSE poll' = [poll EXCEPT
                   !.waker = register(@, d, t),
                   !.t = [x \in PollIds |->
                            IF x = t THEN [@[x] EXCEPT !.pc = "parked"]
                            ELSE IF x = before
                            THEN [@[x] EXCEPT !.lost = TRUE]
                            ELSE @[x]]]
    /\ pollFrame

\* The attempt inside try_io, and the return of Poll::Ready(result).
poll_attempt(t) ==
    /\ poll.t[t].pc = "guard"
    /\ LET sys == poll_syscall(t) IN
       IF try_io(sys) = "Err"
       THEN poll' = [poll EXCEPT !.t[t].pc = "blocked"]
       ELSE poll' = [poll EXCEPT
                !.t[t].pc = "idle", !.t[t].guard = 0, !.t[t].round = @ + 1,
                !.rq = sys.rq, !.backlog = sys.backlog,
                !.event = @ \cup sys.events]
    /\ pollFrame

\* The rest of try_io after an attempt that would block, and `continue`.
poll_continue(t) ==
    /\ poll.t[t].pc = "blocked"
    /\ poll' = [poll EXCEPT
                  !.rdy[poll_direction(t)] = clear_ready(@, poll.t[t].guard),
                  !.t[t].pc = "poll", !.t[t].guard = 0,
                  !.t[t].blocked = TRUE]
    /\ pollFrame

\* The reactor delivers an event: the direction is ready, and the waker
\* stored for it is taken and woken.
poll_reactor(d) ==
    /\ d \in poll.event
    /\ poll' = [poll EXCEPT
                  !.event = @ \ {d},
                  !.rdy[d] = set_readiness(@),
                  !.waker[d] = NoWaker,
                  !.t = [x \in PollIds |->
                           IF x = poll.waker[d]
                           THEN [@[x] EXCEPT !.woken = TRUE] ELSE @[x]]]
    /\ pollFrame

\* A client connects to the listener, which becomes readable.
poll_connect ==
    /\ poll.made < MaxAccepts
    /\ LET sys == connect_syscall(poll.backlog, poll.made + 1, LISTEN_BACKLOG)
       IN poll' = [poll EXCEPT !.backlog = sys.backlog, !.made = @ + 1,
                               !.event = @ \cup {"l"}]
    /\ pollFrame

----------------------------------------------------------------------------

Init ==
    /\ anc = [o \in AncIds |->
                [buffer |-> [i \in 0..(capacity(o) - 1) |-> 0],
                 length |-> 0, truncated |-> FALSE, received |-> FALSE,
                 added |-> <<>>]]
    /\ queue = <<>>
    /\ fdtab = [fd \in 0..(FdLimit - 1) |->
                  IF fd <= 4 THEN AppFile(fd) ELSE NoFile]
    /\ owner = [fd \in 0..(FdLimit - 1) |-> IF fd <= 4 THEN "app" ELSE "none"]
    /\ rbuf = [i \in 0..(RdCap - 1) |-> 0]
    /\ rlen = 0
    /\ rtrunc = FALSE
    /\ rdState = "live"
    /\ into = [alive |-> FALSE, len |-> 0, current |-> None]
    /\ msgs = <<>>
    /\ badClose = {}
    /\ leaked = {}
    /\ fault = "none"
    /\ last = NoResult
    /\ nops = 0
    /\ tasks = [t \in TaskIds |->
                  [pc |-> "idle", round |-> 0, guard |-> 0, prev |-> 0,
                   blocked |-> FALSE, results |-> <<>>]]
    /\ ready = [dir \in Directions |-> [ready |-> FALSE, tick |-> 0]]
    /\ pending = {"w"}
    /\ shut = FALSE
    /\ hungUp = FALSE
    /\ conn = NoConn
    /\ lsn = NoListener
    /\ poll = NoPoll
    /\ iter = NoIter

Next ==
    \/ \E o \in AncIds : \E fds \in FdLists : add_fds(o, fds)
    \/ \E o \in AncIds : \E n \in HugeCounts : add_fds_huge(o, n)
    \/ \E o \in AncIds : \E creds \in CredLists : add_creds(o, creds)
    \/ \E o \in AncIds : clear(o)
    \/ \E o \in AncIds : \E payload \in Payloads : send_msg(o, payload)
    \/ \E o \in AncIds : recv_msg(o)

Spec == Init /\ [][Next]_vars

\* The receiving side with an AncillaryMessageReader: "tx" sends, the reader
\* receives and its messages are taken, iterated and dropped.
OwnFdLists == {<<3>>, <<3, 4>>, <<4, 3, 3>>}

NextOwn ==
    \/ \E fds \in OwnFdLists : \E payload \in Payloads : pass_fds(fds, payload)
    \/ rd_recv
    \/ rd_messages
    \/ into_messages
    \/ into_next
    \/ \E k \in 1..Len(msgs) :
           \E index \in 0..FileDescriptors_len(msgs[k]) : take(k, index)
    \/ \E k \in 1..Len(msgs) : fds_next(k)
    \/ \E k \in 1..Len(msgs) : drop_msg(k)
    \/ drop_into
    \/ drop_reader

SpecOwn == Init /\ [][NextOwn]_vars

\* The async operations: tasks, the reactor and a shutdown of b.
NextIo ==
    \/ \E t \in TaskIds : call(t)
    \/ \E t \in TaskIds : await_ready(t)
    \/ \E t \in TaskIds : attempt(t)
    \/ \E t \in TaskIds : continue(t)
    \/ \E dir \in Directions : reactor(dir)
    \/ shutdown

SpecIo == Init /\ [][NextIo]_vars

\* Owned descriptors are added to "tx" and sent; datagrams without them
\* are sent with "rx", and received into it.
NextOwned ==
    \/ \E fds \in OwnedFdLists : add_owned_fds("tx", fds)
    \/ \E payload \in Payloads : send_owned("tx", payload)
    \/ \E payload \in Payloads : send_msg("rx", payload)
    \/ recv_msg("rx")

SpecOwned == Init /\ [][NextOwned]_vars

\* The halves of a split pair.
NextSplit ==
    \/ \E x \in Ends : \E payload \in HalfPayloads : half_send(x, payload)
    \/ \E x \in Ends : half_recv(x)
    \/ \E x \in Ends : \E half \in {"ReadHalf", "WriteHalf"} :
           half_shutdown(x, half)

SpecSplit == Init /\ [][NextSplit]_vars

\* The listener: the accepting task is scheduled whenever it can take a
\* step, and the reactor delivers every event.
accept_step ==
    accept_call \/ accept_ready \/ accept_attempt \/ accept_continue

NextListen ==
    \/ \E c \in Clients : client_connect(c)
    \/ accept_call
    \/ accept_ready
    \/ accept_attempt
    \/ accept_continue
    \/ accept_reactor
    \/ \E k \in 1..MaxClients : server_send(k)
    \/ \E c \in Clients : client_recv(c)

SpecListen ==
    Init /\ [][NextListen]_vars
         /\ WF_vars(accept_step) /\ WF_vars(accept_reactor)

\* The poll functions: every task is polled when it is called or woken and
\* runs on to its return, the reactor delivers every event, and the clients
\* connect.
poll_step(t) == poll_call(t) \/ poll_ready(t) \/ poll_attempt(t) \/ poll_continue(t)

NextPoll ==
    \/ \E t \in PollIds : poll_call(t)
    \/ \E t \in PollIds : poll_ready(t)
    \/ \E t \in PollIds : poll_attempt(t)
    \/ \E t \in PollIds : poll_continue(t)
    \/ \E d \in PollDirections : poll_reactor(d)
    \/ poll_connect

SpecPoll ==
    Init /\ [][NextPoll]_vars
         /\ \A t \in PollIds : WF_vars(poll_step(t))
         /\ \A d \in PollDirections : WF_vars(poll_reactor(d))
         /\ WF_vars(poll_connect)


\* A listener that accepts nothing, while a client of this process and
\* clients of other processes connect to it.
NextConnect ==
    \/ client_connect(1)
    \/ connect_others

SpecConnect == Init /\ [][NextConnect]_vars

\* A listener is bound to an address and asked for its address.
NextAddr ==
    \/ \E address \in Addresses : bind(address)
    \/ local_addr

SpecAddr == Init /\ [][NextAddr]_vars

\* The iterators over any content: the iterator is handed its bytes at the
\* start, and next() is called on it.
InitWalk ==
    /\ anc = [o \in AncIds |->
                [buffer |-> [i \in 0..(capacity(o) - 1) |-> 0],
                 length |-> 0, truncated |-> FALSE, received |-> FALSE,
                 added |-> <<>>]]
    /\ queue = <<>>
    /\ fdtab = [fd \in 0..(FdLimit - 1) |->
                  IF fd <= 4 THEN AppFile(fd) ELSE NoFile]
    /\ owner = [fd \in 0..(FdLimit - 1) |-> IF fd <= 4 THEN "app" ELSE "none"]
    /\ rbuf = [i \in 0..(RdCap - 1) |-> 0]
    /\ rlen = 0
    /\ rtrunc = FALSE
    /\ rdState = "live"
    /\ into = [alive |-> FALSE, len |-> 0, current |-> None]
    /\ msgs = <<>>
    /\ badClose = {}
    /\ leaked = {}
    /\ fault = "none"
    /\ last = NoResult
    /\ nops = 0
    /\ tasks = [t \in TaskIds |->
                  [pc |-> "idle", round |-> 0, guard |-> 0, prev |-> 0,
                   blocked |-> FALSE, results |-> <<>>]]
    /\ ready = [dir \in Directions |-> [ready |-> FALSE, tick |-> 0]]
    /\ pending = {"w"}
    /\ shut = FALSE
    /\ hungUp = FALSE
    /\ conn = NoConn
    /\ lsn = NoListener
    /\ poll = NoPoll
    /\ iter \in {new_messages(kind, platform, buf, length) :
                    kind \in {"Messages", "AncillaryMessages"},
                    platform \in {"linux", "other"},
                    buf \in Contents, length \in UsedLens}

NextWalk == iter_next \/ call_messages

SpecWalk == InitWalk /\ [][NextWalk]_vars

\* The same with fair scheduling: every task that can take a step is
\* scheduled and the reactor delivers every event. b is never shut down, so
\* that every datagram sent finds its receiver and the queue is emptied.
task_step(t) == call(t) \/ await_ready(t) \/ attempt(t) \/ continue(t)

Fairness ==
    /\ \A t \in TaskIds : WF_vars(task_step(t))
    /\ \A dir \in Directions : WF_vars(reactor(dir))

NextIoFair ==
    \/ \E t \in TaskIds : call(t)
    \/ \E t \in TaskIds : await_ready(t)
    \/ \E t \in TaskIds : attempt(t)
    \/ \E t \in TaskIds : continue(t)
    \/ \E dir \in Directions : reactor(dir)

SpecIoFair == Init /\ [][NextIoFair]_vars /\ Fairness

\* The async operations on the open connection, any of which may be dropped
\* while it waits.
NextIoDrop ==
    \/ NextIoFair
    \/ \E t \in TaskIds : drop_operation(t)

SpecIoDrop == Init /\ [][NextIoDrop]_vars

\* The async operations with fair scheduling, and the drop of socket a at any
\* moment at which no send is under way.
NextIoClose ==
    \/ NextIoFair
    \/ close_peer

SpecIoClose == Init /\ [][NextIoClose]_vars /\ Fairness

----------------------------------------------------------------------------
(* The control buffer of a SocketAncillary (under Spec) *)

\* A step that is a call of add_fds or add_creds on o.
add_step(o) ==
    /\ nops' = nops + 1
    /\ last'.op \in {"add_fds", "add_creds"}
    /\ last'.o = o

\* CMSG_SPACE of a payload of 4 * units bytes as a number, in units of 4 bytes.
padded_units(units) == 2 * ((units + 1) \div 2) + (SIZEOF_CMSGHDR \div 4)

\* The payload of 4 * units bytes does not fit a u32, or its padded size is
\* more than what is left of o's buffer.
too_large(o, units) ==
    \/ units >= U32_UNITS
    \/ padded_units(units) > (capacity(o) - anc[o].length) \div 4

\* C6: capacity rejection is atomic. An add_fds / add_creds whose padded size
\* exceeds the remaining capacity, or whose size does not fit the size
\* computation, returns false and leaves used_length and all bytes as they were.
C6_RejectionIsAtomic ==
    [][\A o \in AncIds :
          (add_step(o) /\ too_large(o, last'.size)) =>
              /\ last'.ret = "false"
              /\ anc'[o].length = anc[o].length
              /\ anc'[o].buffer = anc[o].buffer]_vars

\* An add was rejected on a buffer that already held a message.
C6_Witness ==
    /\ last.op \in {"add_fds", "add_creds"} /\ last.ret = "false"
    /\ \E o \in AncIds : last.o = o /\ anc[o].length >= SIZEOF_CMSGHDR

\* C7: a failed add leaves the truncation flag as it was.
C7_FailedAddKeepsTruncated ==
    [][\A o \in AncIds :
          (add_step(o) /\ last'.ret = "false") =>
              anc'[o].truncated = anc[o].truncated]_vars

\* An add failed on a buffer filled by a receive.
C7_Witness ==
    /\ last.op \in {"add_fds", "add_creds"} /\ last.ret = "false"
    /\ \E o \in AncIds :
          last.o = o /\ anc[o].length = capacity(o) /\ anc[o].added = <<>>

\* C8: used_length <= capacity for every control buffer, in every state.
C8_LengthWithinCapacity ==
    \A o \in AncIds :
        /\ anc[o].length <= capacity(o)
        /\ DOMAIN anc[o].buffer = 0..(capacity(o) - 1)

\* An add was rejected for lack of room, and a receive filled a buffer up.
C8_Witness ==
    /\ last.op \in {"add_fds", "add_creds"} /\ last.ret = "false"
    /\ \E o \in AncIds : last.o = o /\ anc[o].length > 0
    /\ \E o \in AncIds : anc[o].length = capacity(o)

\* C9: a successful add of a payload of p bytes advances used_length by
\* CMSG_SPACE(p), writes at the old used_length a header with the given level
\* and type and the length CMSG_LEN(p), the payload right after the header,
\* and leaves zero in the padding of the added region.
C9_SuccessfulAddLayout ==
    [][\A o \in AncIds :
          (add_step(o) /\ last'.ret = "true") =>
              LET old == anc[o].length
                  new == anc'[o].length
                  buf == anc'[o].buffer
                  p   == last'.size
              IN /\ (new - old) % 4 = 0
                 /\ (new - old) \div 4 = padded_units(p)
                 /\ cmsg_level(buf, old) = SOL_SOCKET
                 /\ cmsg_type(buf, old) = IF last'.op = "add_fds"
                                          THEN SCM_RIGHTS ELSE SCM_CREDENTIALS
                 /\ cmsg_len(buf, old) = CMSG_LEN(4 * p)
                 /\ Len(last'.data) = 4 * p
                 /\ \A j \in 1..(4 * p) :
                       buf[old + SIZEOF_CMSGHDR + j - 1] = last'.data[j]
                 /\ \A j \in (old + SIZEOF_CMSGHDR + 4 * p)..(new - 1) :
                       buf[j] = 0]_vars

\* An add succeeded behind a message that was already there.
C9_Witness ==
    /\ last.op \in {"add_fds", "add_creds"} /\ last.ret = "true"
    /\ \E o \in AncIds : last.o = o /\ Len(anc[o].added) >= 2

----------------------------------------------------------------------------
(* Ownership of received descriptors (under SpecOwn) *)

\* The descriptor slots of a rights message and what they hold.
slots(m) == 0..(FileDescriptors_len(m) - 1)
slot(buf, m, i) == ReadI32(buf, m.data + i * FD_SIZE)
fds_msgs == {k \in 1..Len(msgs) : msgs[k].kind = "fds"}

\* The values of the slots of m that are not the sentinel, in slot order.
untaken(buf, m) ==
    SelectSeq([i \in 1..FileDescriptors_len(m) |-> slot(buf, m, i - 1)],
              LAMBDA v : v # -1)

all_discarded ==
    /\ rdState # "live"
    /\ ~into.alive
    /\ \A k \in 1..Len(msgs) : ~msgs[k].alive

\* C1: no leak on discard. Once a yielded rights message is dropped, each of
\* its slots holds the sentinel (it was taken by the caller or closed by the
\* drop); and once the reader, the IntoAncillaryMessages and every yielded
\* message are dropped, no received descriptor is left open in the reader's
\* name, whatever the number of descriptors and the slots taken before.
C1_NoLeakOnDiscard ==
    /\ \A k \in fds_msgs :
          ~msgs[k].alive => \A i \in slots(msgs[k]) : slot(rbuf, msgs[k], i) = -1
    /\ all_discarded => \A fd \in DOMAIN owner : owner[fd] # "reader"

\* A reader that received two descriptors was dropped and closed one.
C1_Witness ==
    /\ last.op = "drop_reader" /\ Len(last.data) >= 1
    /\ \E fd \in DOMAIN owner : owner[fd] = "reader"

\* C2: iterating an OwnedFileDescriptors on which next() was not called yet
\* yields exactly the descriptors of the slots not taken, each once, in
\* increasing slot order (all n of them when none was taken).
C2_IterationYieldsUntaken ==
    \A k \in fds_msgs :
        (msgs[k].alive /\ msgs[k].position = 0) =>
            drop_owned(rbuf, msgs[k], <<>>).closed = untaken(rbuf, msgs[k])

\* next() got a descriptor out of a message of at least two slots.
C2_Witness ==
    /\ last.op = "next" /\ last.ret = "some"
    /\ \E k \in fds_msgs : FileDescriptors_len(msgs[k]) >= 2

\* C3: each slot is handed to the caller at most once, over any sequence of
\* take_ownership and next(): no slot was handed out twice, a slot that was
\* handed out holds the sentinel -1, and take_ownership on it returns None.
C3_HandedAtMostOnce ==
    \A k \in fds_msgs :
        /\ ~msgs[k].twice
        /\ \A i \in msgs[k].given :
              /\ slot(rbuf, msgs[k], i) = -1
              /\ take_ownership(rbuf, msgs[k], i).fd = None

\* take_ownership was called on a slot handed out before, and returned None.
C3_Witness ==
    /\ last.op = "take" /\ last.ret = "none"
    /\ \E k \in fds_msgs : msgs[k].alive /\ last.size \in msgs[k].given

\* C4: take_ownership(index) on an in-range slot that was not taken returns
\* the descriptor (None only for an index out of range or a taken slot), no
\* matter how many next() steps were made before.
C4_NoneOnlyIfTakenOrOutOfRange ==
    \A k \in fds_msgs :
        msgs[k].alive =>
            \A i \in slots(msgs[k]) :
                slot(rbuf, msgs[k], i) # -1 =>
                    take_ownership(rbuf, msgs[k], i).fd # None

\* take_ownership returned None after a next() step, on a slot in range.
C4_Witness ==
    /\ last.op = "take" /\ last.ret = "none"
    /\ \E k \in fds_msgs :
          /\ msgs[k].alive /\ msgs[k].position > 0
          /\ last.size \in slots(msgs[k])

\* C5: the library closes no received descriptor twice and none that was
\* handed to the caller: every close it makes is of a descriptor the reader
\* still owns, and what the caller took stays open.
C5_NoDoubleClose ==
    /\ badClose = {}
    /\ \A fd \in DOMAIN owner : owner[fd] = "caller" => fdtab[fd] # NoFile

\* A message was dropped and closed a slot after the caller took another.
C5_Witness ==
    /\ last.op = "drop_msg" /\ Len(last.data) >= 1
    /\ \E fd \in DOMAIN owner : owner[fd] = "caller"

\* C10: round trip. When the datagram received was sent with one rights
\* message carrying descriptors f1..fk (k >= 1), the receiver gets the payload
\* unmodified and exactly one message, a rights message of exactly k
\* descriptors that are open on the same files as f1..fk, in that order.
C10_RoundTrip ==
    (/\ last.op = "rd_recv" /\ last.ret = "ok"
     /\ Len(last.sent.added) = 1
     /\ Len(last.sent.added[1].items) >= 1)
    => LET f  == last.sent.added[1].items
           ms == messages(rbuf, rlen)
       IN /\ last.data = last.sent.payload
          /\ last.size = Len(last.sent.payload)
          /\ Len(ms) = 1
          /\ ms[1].kind = "fds"
          /\ FileDescriptors_len(ms[1]) = Len(f)
          /\ \A i \in 1..Len(f) :
                LET fd == FileDescriptors_get(rbuf, ms[1], i - 1) IN
                /\ IsOpen(fdtab, fd)
                /\ fdtab[fd] = AppFile(f[i])

\* Three descriptors, one of them twice, were received.
C10_Witness ==
    /\ last.op = "rd_recv" /\ last.ret = "ok"
    /\ Len(last.sent.added) = 1
    /\ last.sent.added[1].items = <<4, 3, 3>>
    /\ ~rtrunc

----------------------------------------------------------------------------
(* The async operations (under SpecIo and SpecIoFair) *)

\* Where a task is in its operation, what its operations returned so far,
\* and whether the k-th of them returned a datagram.
in_operation(t) == tasks[t].pc \in {"await", "guard", "blocked"}
finished(t) == tasks[t].pc \in {"idle", "done"}
results(t) == tasks[t].results
received(t, k) == results(t)[k].err = "ok" /\ results(t)[k].size > 0

\* C11: no async send or receive operation ever returns WouldBlock to its
\* caller: a task whose attempt would block is back in the readiness wait
\* (or on its way to it), from where it attempts again.
C11_NeverReturnsWouldBlock ==
    \A t \in TaskIds :
        /\ \A k \in 1..Len(results(t)) : results(t)[k].err # "WouldBlock"
        /\ Len(results(t)) = tasks[t].round

\* An operation returned its result after an attempt of it had blocked.
C11_Witness ==
    \E t \in TaskIds :
        /\ finished(t) /\ tasks[t].blocked
        /\ results(t) # <<>> /\ results(t)[Len(results(t))].err = "ok"

\* A step in which task t makes an attempt, and one in which it leaves the
\* attempt that would block behind; a syscall outcome that is "would block".
attempt_step(t) == tasks[t].pc = "guard" /\ tasks'[t] # tasks[t]
would_block(sys) == sys.ret < 0 /\ sys.errno = "WouldBlock"
continue_step(t) == tasks[t].pc = "blocked" /\ tasks'[t] # tasks[t]

\* C12: an attempt whose syscall fails with an error other than WouldBlock
\* ends the operation with that same error, and one that returns a byte count
\* ends it with that count: the result is returned as it is and the task is
\* out of the operation, with no further attempt.
C12_OtherResultsAreTerminal ==
    [][\A t \in TaskIds :
         attempt_step(t) /\ ~would_block(syscall(t)) =>
             /\ Len(results(t)') = Len(results(t)) + 1
             /\ LET r == results(t)'[Len(results(t)')] IN
                IF syscall(t).ret < 0
                THEN r.err = syscall(t).errno
                ELSE r.err = "ok" /\ r.size = syscall(t).ret
             /\ finished(t)'
             /\ tasks'[t].round = tasks[t].round + 1]_vars

\* A send has ended with EPIPE and a receive with a datagram's byte count.
C12_Witness ==
    /\ \E t \in Senders : \E k \in 1..Len(results(t)) :
           results(t)[k].err = "EPIPE"
    /\ \E t \in Receivers : \E k \in 1..Len(results(t)) : received(t, k)

\* C13: there is no busy spin. When an attempt would block, the readiness
\* it was made under is cleared: the direction is not ready any more, unless
\* the reactor has reported it ready again since. And the guard of the next
\* attempt of that operation comes from a later report of the reactor.
C13_NoBusySpin ==
    [][\A t \in TaskIds :
         /\ continue_step(t) =>
               /\ tasks'[t].pc = "await"
               /\ ready'[direction(t)].ready =>
                     ready'[direction(t)].tick > tasks[t].guard
         /\ tasks[t].pc = "await" /\ tasks'[t].pc = "guard" /\ tasks[t].blocked =>
               tasks'[t].guard > tasks[t].prev]_vars

\* A task holds the guard of a new attempt after an attempt that blocked.
C13_Witness ==
    \E t \in TaskIds : tasks[t].pc = "guard" /\ tasks[t].blocked

\* C14: with fair scheduling, every task that is in a send or a receive
\* gets out of it: also the receive that was called before any send, and
\* the tasks that wait on the same socket together.
C14_EveryOperationCompletes ==
    \A t \in TaskIds : in_operation(t) ~> finished(t)

\* All operations are over, and both receivers had to wait on the way.
C14_Witness ==
    /\ \A t \in TaskIds : tasks[t].pc = "done"
    /\ \A t \in Receivers : tasks[t].blocked

\* The datagrams the kernel accepted from the senders, those a receive
\* returned (task and number of the result), and those still queued.
sent_messages ==
    UNION {{message(t, k) : k \in {j \in 1..Len(results(t)) :
                                      results(t)[j].err = "ok"}} : t \in Senders}
receipts == {<<t, k>> \in Receivers \X (1..MaxRounds) :
                k <= Len(results(t)) /\ received(t, k)}
receipt_data(x) == results(x[1])[x[2]].data
queued == {queue[i].payload : i \in 1..Len(queue)}

\* C15: with several tasks receiving on the same socket, every datagram is
\* returned whole to exactly one of them: no two receives return the same
\* datagram, every receive returns exactly one datagram that was sent, with
\* its length, and a datagram sent is either still queued or was returned.
C15_EachDatagramToOneReceiver ==
    /\ \A x, y \in receipts : receipt_data(x) = receipt_data(y) => x = y
    /\ \A x \in receipts :
           /\ receipt_data(x) \in sent_messages
           /\ results(x[1])[x[2]].size = Len(receipt_data(x))
           /\ receipt_data(x) \notin queued
    /\ \A m \in sent_messages :
           m \in queued \/ \E x \in receipts : receipt_data(x) = m
    /\ Cardinality(queued) = Len(queue)

\* Both receivers returned a datagram, and "r2" had to try again for its one.
C15_Witness ==
    /\ \A t \in Receivers : Len(results(t)) >= 1 /\ received(t, 1)
    /\ tasks["r2"].blocked

\* Only "s1" sends and only "r1" receives.
one_to_one ==
    \A t \in {"s2", "r2"} : tasks[t].pc = "idle" /\ tasks[t].round = 0

\* C16: with one sender and one receiver the datagrams arrive in the order
\* they were sent: the k-th datagram received is the k-th sent, with exactly
\* its bytes and its length.
C16_InOrder ==
    one_to_one =>
        \A k \in 1..Len(results("r1")) :
            received("r1", k) =>
                /\ k <= Len(results("s1")) /\ results("s1")[k].err = "ok"
                /\ results("r1")[k].data = message("s1", k)
                /\ results("r1")[k].size = results("s1")[k].size

\* "r1" received two datagrams of "s1".
C16_Witness ==
    /\ one_to_one
    /\ Len(results("r1")) >= 2 /\ received("r1", 1) /\ received("r1", 2)

----------------------------------------------------------------------------
(* Receiving into a SocketAncillary (under Spec) *)

\* A step that is a successful recv_msg into o.
recv_step(o) ==
    /\ nops' = nops + 1
    /\ last'.op = "recv" /\ last'.o = o /\ last'.ret = "ok"

\* C17: after a successful receive the used length is the control length the
\* kernel reported and truncated is TRUE exactly when the kernel flagged the
\* truncation of the control data. When the rights message of the datagram
\* does not fit the capacity, truncated is TRUE and the used length covers
\* only the descriptors that fit, within the capacity.
C17_LengthAndTruncationFromKernel ==
    [][\A o \in AncIds :
         recv_step(o) =>
            LET d == Head(queue)
                k == scm_detach_fds(anc[o].buffer, capacity(o), d, fdtab)
                fit == Len(k.newfds)
            IN /\ anc'[o].length = k.controllen
               /\ anc'[o].truncated = k.ctrunc
               /\ Len(d.files) > 0 /\ CMSG_LEN(FD_SIZE * Len(d.files)) > capacity(o) =>
                     /\ anc'[o].truncated
                     /\ fit < Len(d.files)
                     /\ anc'[o].length <= capacity(o)
                     /\ anc'[o].length =
                            IF fit = 0 THEN 0
                            ELSE Min(CMSG_SPACE(FD_SIZE * fit), capacity(o))]_vars

\* The small buffer has just received a datagram with more descriptors than
\* it holds: it kept one of them.
C17_Witness ==
    /\ last.op = "recv" /\ last.o = "rx" /\ last.ret = "ok"
    /\ last.sent.added # <<>>
    /\ anc["rx"].truncated /\ anc["rx"].length = SmallCap

----------------------------------------------------------------------------
(* The iterators over any buffer content (under SpecWalk) *)

\* The used length of the iterator's buffer, the messages it yielded, and
\* whether the header at cmsg lies with its whole length inside the buffer.
used == IF iter.buffer = <<>> THEN 0 ELSE Cardinality(DOMAIN iter.buffer)
yielded == iter.yielded
well_formed(cmsg) ==
    /\ cmsg_len(iter.buffer, cmsg) >= SIZEOF_CMSGHDR
    /\ cmsg_len(iter.buffer, cmsg) # TOO_BIG
    /\ cmsg + cmsg_len(iter.buffer, cmsg) <= used

next_step == iter' # iter /\ iter'.earlier = iter.earlier

C20_UnknownIsYieldedAsOther ==
    \A k \in 1..Len(yielded) :
        LET m     == yielded[k]
            level == cmsg_level(iter.buffer, m.hdr)
            type  == cmsg_type(iter.buffer, m.hdr)
        IN well_formed(m.hdr) /\ ~(level = SOL_SOCKET /\
                                    type \in {SCM_RIGHTS, SCM_CREDENTIALS}) =>
              /\ m.kind = "other"
              /\ m.cmsg_level = level /\ m.cmsg_type = type
              /\ m.data = CMSG_DATA(m.hdr)
              /\ m.data_len = cmsg_len(iter.buffer, m.hdr) - CMSG_LEN(0)

\* Messages has yielded an error for a well-formed SCM_TIMESTAMP message.
C20_Witness ==
    /\ iter.kind = "Messages" /\ Len(yielded) >= 1
    /\ well_formed(yielded[1].hdr)
    /\ yielded[1].cmsg_level = SOL_SOCKET /\ yielded[1].cmsg_type = 29
    /\ yielded[1].kind = "error"

\* s is the start of t.
Range(f) == {f[x] : x \in DOMAIN f}

\* s is the start of t.
is_prefix(s, t) == Len(s) <= Len(t) /\ s = SubSeq(t, 1, Len(s))

\* C21: every call of messages() starts a new walk at byte 0: what it yields
\* is what the iterators made before it on the same bytes yielded, message
\* by message, however far those had come; two walks that reached the end
\* yielded the same sequence.
C21_MessagesStartsAfresh ==
    /\ yielded # <<>> => yielded[1].hdr = 0
    /\ \A k \in 1..Len(iter.earlier) :
          LET e == iter.earlier[k] IN
          /\ is_prefix(e.yielded, yielded) \/ is_prefix(yielded, e.yielded)
          /\ e.over => Len(yielded) <= Len(e.yielded)
          /\ e.over /\ iter.over => e.yielded = yielded

\* The first iterator was left after one of two messages; the second one
\* yielded both and reached the end.
C21_Witness ==
    /\ Len(iter.earlier) = 1
    /\ Len(iter.earlier[1].yielded) = 1 /\ ~iter.earlier[1].over
    /\ Len(yielded) = 2 /\ iter.over

----------------------------------------------------------------------------
(* What reading changes in the reader's buffer (under SpecOwn) *)

\* The bytes of slot i of message m, and the bytes a step changed.
slot_bytes(m, i) == (m.data + i * FD_SIZE)..(m.data + i * FD_SIZE + FD_SIZE - 1)
changed_bytes == {i \in DOMAIN rbuf : rbuf'[i] # rbuf[i]}

\* The step leaves the used length and the truncation flag as they are.
same_view == rlen' = rlen /\ into'.len = into.len /\ rtrunc' = rtrunc

\* C22: walking messages() and reading through the borrowed views changes
\* no byte of the buffer, nor the used length, nor truncated. A
\* take_ownership that hands out a descriptor changes the bytes of that one
\* slot, which then holds -1, and nothing else; one that returns None changes
\* nothing. What next() and the drops change, they change the same way: every
\* byte changed lies in a descriptor slot that holds -1 afterwards.
C22_OnlyTakeOwnershipWrites ==
    [][/\ last'.op \in {"messages", "into_next"} =>
             rbuf' = rbuf /\ same_view
       /\ last'.op = "take" =>
             /\ same_view
             /\ IF last'.ret = "none" THEN rbuf' = rbuf
                ELSE \E k \in fds_msgs :
                        /\ changed_bytes \subseteq slot_bytes(msgs[k], last'.size)
                        /\ slot(rbuf, msgs[k], last'.size) = last'.data[1]
                        /\ slot(rbuf', msgs[k], last'.size) = -1
       /\ last'.op \in {"next", "drop_msg", "drop_into", "drop_reader"} =>
             /\ same_view
             /\ \A b \in changed_bytes :
                   \E m \in Range(messages(rbuf, IF rdState = "live"
                                                 THEN rlen ELSE into.len)) :
                       /\ m.kind = "fds"
                       /\ \E i \in slots(m) :
                              b \in slot_bytes(m, i) /\ slot(rbuf', m, i) = -1]_vars

\* A descriptor was taken out of a message that was read before and that
\* still holds another descriptor in the slot after it.
C22_Witness ==
    /\ last.op = "take" /\ last.ret = "some"
    /\ \E k \in fds_msgs :
          /\ msgs[k].alive /\ last.size \in msgs[k].given
          /\ last.size + 1 \in slots(msgs[k])
          /\ slot(rbuf, msgs[k], last.size) = -1
          /\ slot(rbuf, msgs[k], last.size + 1) # -1

\* The payload bytes of the message the reader's buffer holds (the kernel
\* writes one rights message per datagram), and the number of descriptors
\* the last walk read through its FileDescriptors view.
payload_bytes == cmsg_len(rbuf, 0) - CMSG_LEN(0)
walked == last.op = "messages" /\ rlen >= SIZEOF_CMSGHDR

\* C23, as stated: the FileDescriptors view of a rights message with a
\* payload of b bytes has b divided by the pointer width (8 bytes on this
\* platform) elements.
C23_LengthIsPayloadOverPointerWidth ==
    walked => Len(last.data) = payload_bytes \div SIZEOF_USIZE

\* C23, amended: the FileDescriptors view of a rights message with a payload
\* of b bytes has b divided by the size of a descriptor (4 bytes) elements,
\* rounded down, and they are the descriptors stored in the payload.
C23_LengthIsPayloadOverFdSize ==
    walked =>
        /\ Len(last.data) = payload_bytes \div FD_SIZE
        /\ \A i \in 1..Len(last.data) :
              last.data[i] = ReadI32(rbuf, CMSG_DATA(0) + (i - 1) * FD_SIZE)

\* A walk read three descriptors out of a payload of 12 bytes.
C23_Witness ==
    walked /\ payload_bytes = 12 /\ Len(last.data) = 3

----------------------------------------------------------------------------
(* Operations dropped while they wait (under SpecIoDrop) *)

\* The datagrams the kernel accepted from sender t, those receiver t was
\* returned, and those in the queue, each in order.
indices(t) == [k \in 1..Len(results(t)) |-> k]
sent_seq(t) ==
    LET ks == SelectSeq(indices(t), LAMBDA k : results(t)[k].err = "ok")
    IN [i \in 1..Len(ks) |-> message(t, ks[i])]
recv_seq(t) ==
    LET ks == SelectSeq(indices(t), LAMBDA k : received(t, k))
    IN [i \in 1..Len(ks) |-> results(t)[ks[i]].data]
queue_seq == [i \in 1..Len(queue) |-> queue[i].payload]
dropped(t, k) == results(t)[k].err = "dropped"

\* C24: an operation dropped while it waits consumes and transmits nothing.
\* The datagram of a dropped send is never queued nor received; the
\* datagrams received and those still queued are exactly the ones whose send
\* returned, none lost to a dropped receive; and with one sender and one
\* receiver, the datagrams received followed by the queue are the datagrams
\* sent, in the order sent, whatever was dropped in between.
C24_DroppedOperationHasNoEffect ==
    /\ \A t \in Senders : \A k \in 1..Len(results(t)) :
           dropped(t, k) =>
               /\ message(t, k) \notin queued
               /\ \A x \in receipts : receipt_data(x) # message(t, k)
    /\ sent_messages = queued \cup {receipt_data(x) : x \in receipts}
    /\ Cardinality(sent_messages) = Len(queue) + Cardinality(receipts)
    /\ one_to_one => recv_seq("r1") \o queue_seq = sent_seq("s1")

\* One sender, one receiver: the first send and the first receive were
\* dropped while waiting, and the second receive returned the datagram of
\* the second send.
C24_Witness ==
    /\ one_to_one
    /\ Len(results("s1")) = 2 /\ dropped("s1", 1) /\ results("s1")[2].err = "ok"
    /\ Len(results("r1")) = 2 /\ dropped("r1", 1) /\ received("r1", 2)

----------------------------------------------------------------------------
(* The end of the stream (under SpecIoClose) *)

\* The last operation of t returned Ok(0).
returned_zero(t) ==
    /\ results(t) # <<>>
    /\ results(t)[Len(results(t))].err = "ok"
    /\ results(t)[Len(results(t))].size = 0

\* C25: once the peer is closed and the queue is empty, a receive that is
\* under way completes, and it completes with Ok(0); and a receive returns
\* Ok(0) only then (no datagram is empty), so a loop that stops on a length
\* of zero stops when, and only when, the stream is over.
C25_RecvReturnsZeroAtEnd ==
    /\ \A t \in Receivers :
          (hungUp /\ queue = <<>> /\ in_operation(t))
              ~> (finished(t) /\ returned_zero(t))
    /\ [](\A t \in Receivers :
             returned_zero(t) => hungUp /\ queue = <<>>)

\* A receive that had been waiting since before the peer was closed returned
\* Ok(0), after the same task received a datagram.
C25_Witness ==
    /\ hungUp
    /\ Len(results("r1")) = 2 /\ received("r1", 1) /\ returned_zero("r1")
    /\ returned_zero("r2") /\ tasks["r2"].blocked

----------------------------------------------------------------------------
(* clear() of a SocketAncillary (under Spec) *)

\* A step that is a call of clear() on o.
clear_step(o) ==
    /\ nops' = nops + 1
    /\ last'.op = "clear" /\ last'.o = o

\* C26: clear() sets the used length to 0 and truncated to false, leaves
\* every byte of the storage and the capacity as they were, and leaves the
\* other object alone; the first next() of messages() right after it is
\* None.
C26_ClearResetsTheView ==
    [][\A o \in AncIds :
          clear_step(o) =>
              /\ anc'[o].length = 0
              /\ anc'[o].truncated = FALSE
              /\ anc'[o].buffer = anc[o].buffer
              /\ DOMAIN anc'[o].buffer = 0..(capacity(o) - 1)
              /\ \A other \in AncIds \ {o} : anc'[other] = anc[other]
              /\ \A platform \in {"linux", "other"} :
                    iterator_next(platform, anc'[o].buffer, anc'[o].length,
                                  None) = None]_vars

\* The small buffer was cleared after a truncated receive: the header of the
\* one descriptor that had fit is still in its bytes.
C26_Witness ==
    /\ last.op = "clear" /\ last.o = "rx"
    /\ anc["rx"].length = 0 /\ ~anc["rx"].truncated
    /\ cmsg_len(anc["rx"].buffer, 0) = CMSG_LEN(FD_SIZE)
    /\ cmsg_type(anc["rx"].buffer, 0) = SCM_RIGHTS

----------------------------------------------------------------------------
(* The halves of a split socket (under SpecSplit) *)

\* Only the shutdown() of WriteHalf(x) was called, on no other half.
only_write_half(x) ==
    conn.called[x] = {"WriteHalf"} /\ conn.called[peer(x)] = {}

\* C27: WriteHalf::shutdown shuts down the write direction and not the read
\* direction. Once it was called on an end, the write direction of that end
\* is shut down and a send on it fails with EPIPE; and when no other
\* shutdown was called, its read direction is not shut down: a receive on
\* it returns a datagram or would block, never the end of the stream.
C27_WriteHalfShutsDownWrite ==
    \A x \in Ends :
        /\ "WriteHalf" \in conn.called[x] =>
              /\ "SEND" \in conn.down[x]
              /\ conn.last.op = "send" /\ conn.last.x = x =>
                    conn.last.ret = "EPIPE"
        /\ only_write_half(x) =>
              /\ "RCV" \notin conn.down[x]
              /\ conn.last.op = "recv" /\ conn.last.x = x /\ conn.last.ret = "ok"
                    => conn.last.data # <<>>

\* After WriteHalf(a).shutdown() and nothing else, a send on a went through.
C27_Witness ==
    /\ only_write_half("a")
    /\ conn.last.op = "send" /\ conn.last.x = "a" /\ conn.last.ret = "ok"
    /\ conn.rq["b"] # <<>>

----------------------------------------------------------------------------
(* The listener (under SpecListen) *)

accepted_peers == {lsn.accepted[k].peer : k \in 1..Len(lsn.accepted)}
was_accepted(c) == c \in accepted_peers

\* C28: a listener that keeps calling accept eventually returns one
\* connected socket per connecting client; each connection is returned
\* exactly once and is one that a client made; no accept() returns
\* WouldBlock; and the data sent on an accepted socket is found at the
\* client of that socket's connection, and nowhere else.
C28_AcceptReturnsEachConnectionOnce ==
    /\ \A c \in Clients : (lsn.client[c] = "connected") ~> was_accepted(c)
    /\ [](/\ \A k \in 1..Len(lsn.accepted) :
                /\ lsn.accepted[k].err = "ok"
                /\ lsn.client[lsn.accepted[k].peer] = "connected"
                /\ \A j \in 1..Len(lsn.accepted) :
                      lsn.accepted[j].peer = lsn.accepted[k].peer => j = k
          /\ \A c \in Clients :
                /\ \A d \in Range(lsn.rq[c] \o lsn.got[c]) :
                      lsn.accepted[d[1]].peer = c
                /\ \A k \in lsn.sent :
                      lsn.accepted[k].peer = c =>
                         <<k>> \in Range(lsn.rq[c] \o lsn.got[c]))

\* An accept() that found no connection at its first attempt returned the
\* connection of a client that connected later; all clients were accepted
\* and each received what was sent to it.
C28_Witness ==
    /\ accepted_peers = Clients
    /\ lsn.accepted[1].peer # 1
    /\ lsn.blocked /\ lsn.rdy.tick > 1
    /\ \A c \in Clients : Len(lsn.got[c]) = 1

----------------------------------------------------------------------------
(* The address of a listener (under SpecAddr) *)

\* C29: local_addr() of a listener bound to address A returns exactly A,
\* for filesystem paths and for abstract names, with and without a null
\* byte at the end.
C29_LocalAddrIsTheBoundAddress ==
    lsn.local # NoAddr =>
        lsn.local.err = "ok" /\ lsn.local.path = lsn.address

\* local_addr() was called on a listener bound to an abstract name that
\* ends with a null byte.
C29_Witness ==
    /\ lsn.local # NoAddr
    /\ lsn.address = <<0, 97, 1, 0>>

----------------------------------------------------------------------------
(* Owned descriptors on the sending side (under SpecOwned) *)

\* The descriptors that the buffer of the last send_owned attempt carried.
carried == owned_items(last.sent.added)

----------------------------------------------------------------------------
(* The codec of a SocketAncillary without the kernel (under Spec) *)

\* What the caller passed to a successful add, as a kind and the bytes of
\* each value.
added_units(input) ==
    [kind |-> input.kind,
     units |-> IF input.kind = "fds"
               THEN [i \in DOMAIN input.items |-> I32Bytes(input.items[i])]
               ELSE [i \in DOMAIN input.items |-> CredBytes(input.items[i])]]

\* C31: codec round trip without the kernel. On a buffer whose content was
\* made by add_fds / add_creds calls from empty, messages() yields exactly
\* one message per successful add, in insertion order, each with the kind
\* and the values that were added.
C31_CodecRoundTrip ==
    \A o \in AncIds :
        ~anc[o].received =>
            SocketAncillary_messages(anc[o])
                = [k \in DOMAIN anc[o].added |-> added_units(anc[o].added[k])]

\* Two messages of different kinds were added and are yielded.
C31_Witness ==
    \E o \in AncIds :
        /\ ~anc[o].received /\ Len(anc[o].added) = 2
        /\ anc[o].added[1].kind = "creds" /\ anc[o].added[2].kind = "fds"
        /\ Len(anc[o].added[2].items) = 2
        /\ Len(SocketAncillary_messages(anc[o])) = 2

\* C32: a successful add writes only into the bytes from the old
\* used_length up to the new one: every byte before the old used_length is
\* unchanged, as is every byte from the new one on, and the new header (its
\* length, level and type) lies exactly at the old used_length.
C32_AddWritesOnlyNewRegion ==
    [][\A o \in AncIds :
          (add_step(o) /\ last'.ret = "true") =>
              LET old == anc[o].length
                  new == anc'[o].length
              IN /\ \A i \in DOMAIN anc[o].buffer :
                       (i < old \/ i >= new) =>
                           anc'[o].buffer[i] = anc[o].buffer[i]
                 /\ old + SIZEOF_CMSGHDR <= new
                 /\ cmsg_len(anc'[o].buffer, old) = CMSG_LEN(4 * last'.size)
                 /\ cmsg_level(anc'[o].buffer, old) = SOL_SOCKET
                 /\ cmsg_type(anc'[o].buffer, old)
                       = IF last'.op = "add_fds" THEN SCM_RIGHTS
                         ELSE SCM_CREDENTIALS]_vars

\* An add succeeded, without a write past the buffer, on a buffer whose
\* used_length was 8: an add had failed on it.
C32_Witness ==
    /\ last.op \in {"add_fds", "add_creds"} /\ last.ret = "true"
    /\ fault = "none"
    /\ \E o \in AncIds :
          /\ last.o = o /\ Len(anc[o].added) = 1 /\ ~anc[o].received
          /\ anc[o].length = 8 + CMSG_SPACE(4 * last.size)

----------------------------------------------------------------------------
(* The length of an OwnedFileDescriptors (under SpecOwn) *)

\* The descriptors that the next() calls on m yield from here on.
still_yielded(m) == drop_owned(rbuf, m, <<>>).closed

\* C33: the length an OwnedFileDescriptors reports (len, size_hint) is the
\* number of descriptors that the following next() calls will yield, in
\* every state reached by take_ownership calls and next() steps.
C33_LenIsWhatNextYields ==
    \A k \in fds_msgs :
        msgs[k].alive =>
            OwnedFileDescriptors_len(msgs[k]) = Len(still_yielded(msgs[k]))

\* take_ownership took the second descriptor of a message of two whose
\* iteration has not begun.
C33_Witness ==
    /\ last.op = "take" /\ last.ret = "some" /\ last.size = 1
    /\ \E k \in fds_msgs :
          /\ msgs[k].alive /\ msgs[k].position = 0
          /\ msgs[k].data_len = 2 * FD_SIZE
          /\ Len(still_yielded(msgs[k])) = 1

----------------------------------------------------------------------------
(* send_msg and recv_msg on a SocketAncillary (under Spec) *)

\* A step that is an attempt of recv_msg, or of send_msg, on o.
recv_attempt(o) == nops' = nops + 1 /\ last'.op = "recv" /\ last'.o = o
send_step(o) == nops' = nops + 1 /\ last'.op = "send" /\ last'.o = o

\* C34: a receive attempt that fails leaves used_length and truncated of
\* the control buffer as they were: an attempt that changes one of them
\* has succeeded.
C34_FailedReceiveKeepsLengthAndTruncated ==
    [][\A o \in AncIds :
          (recv_attempt(o) /\ last'.ret # "ok") =>
              /\ anc'[o].length = anc[o].length
              /\ anc'[o].truncated = anc[o].truncated]_vars

\* A receive would block on a buffer that an earlier receive left
\* truncated and not empty.
C34_Witness ==
    /\ last.op = "recv" /\ last.ret = "WouldBlock"
    /\ anc[last.o].truncated /\ anc[last.o].length > 0

\* The descriptors out of n that a control buffer of cap bytes holds, and
\* the control length of a receive that delivers them.
fitting(n, cap) ==
    IF cap > SIZEOF_CMSGHDR THEN Min((cap - SIZEOF_CMSGHDR) \div FD_SIZE, n)
    ELSE 0
received_length(n, cap) ==
    IF fitting(n, cap) = 0 THEN 0
    ELSE Min(CMSG_SPACE(FD_SIZE * fitting(n, cap)), cap)

\* C35: a receive offers the kernel the whole capacity of the control
\* buffer and replaces its content. After a successful receive used_length
\* is the control length of that datagram in a buffer of the whole capacity,
\* whatever used_length was before, and its message begins the buffer.
C35_ReceiveReplacesTheContent ==
    [][\A o \in AncIds :
          (recv_attempt(o) /\ last'.ret = "ok") =>
              LET n == Len(Head(queue).files) IN
              /\ anc'[o].length = received_length(n, capacity(o))
              /\ fitting(n, capacity(o)) > 0 =>
                    /\ cmsg_len(anc'[o].buffer, 0)
                          = CMSG_LEN(FD_SIZE * fitting(n, capacity(o)))
                    /\ cmsg_type(anc'[o].buffer, 0) = SCM_RIGHTS]_vars

\* A datagram was received into the buffer it was sent from, which held
\* the two messages of that datagram: the part behind them had no room for
\* the received message, and used_length is that of the received one.
C35_Witness ==
    /\ last.op = "recv" /\ last.ret = "ok" /\ last.o = "tx"
    /\ Len(last.sent.added) = 2
    /\ last.sent.added[1].kind = "creds"
    /\ last.sent.added[2].kind = "fds" /\ last.sent.added[2].items # <<>>
    /\ anc["tx"].received
    /\ anc["tx"].length = CMSG_SPACE(FD_SIZE * Len(last.sent.added[2].items))

\* The files named by the rights messages that messages() finds in the used
\* part of a.
RECURSIVE files_of(_, _)
files_of(ms, tab) ==
    IF ms = <<>> THEN <<>>
    ELSE (IF Head(ms).kind = "fds"
          THEN [i \in DOMAIN Head(ms).units |->
                   tab[ReadI32([j \in 0..(FD_SIZE - 1) |->
                                   Head(ms).units[i][j + 1]], 0)]]
          ELSE <<>>) \o files_of(Tail(ms), tab)

\* C36: a send attempt, successful or not, changes nothing of the control
\* buffer but truncated, which becomes false. A successful one transmits
\* the messages of the used part and no others: none when used_length is 0.
C36_SendKeepsTheBufferAndSendsThePrefix ==
    [][\A o \in AncIds :
          send_step(o) =>
              /\ anc'[o] = [anc[o] EXCEPT !.truncated = FALSE]
              /\ \A p \in AncIds \ {o} : anc'[p] = anc[p]
              /\ last'.ret = "ok" =>
                    /\ Len(queue') = Len(queue) + 1
                    /\ queue'[Len(queue')].files
                          = files_of(SocketAncillary_messages(anc[o]), fdtab)
                    /\ anc[o].length = 0 => queue'[Len(queue')].files = <<>>
              /\ last'.ret # "ok" => queue' = queue]_vars

\* A send of one descriptor from a buffer that holds the bytes of an
\* earlier, cleared message behind its used part.
C36_Witness ==
    /\ last.op = "send" /\ last.ret = "ok"
    /\ anc[last.o].length = CMSG_SPACE(FD_SIZE)
    /\ \E i \in DOMAIN anc[last.o].buffer :
          i >= anc[last.o].length /\ anc[last.o].buffer[i] # 0
    /\ queue # <<>> /\ Len(queue[Len(queue)].files) = 1

----------------------------------------------------------------------------
(* Retried sends (under SpecIo) *)

\* How often datagram m is at the peer: queued on its socket or returned
\* by one of its receives.
copies(m) ==
    Cardinality({i \in 1..Len(queue) : queue[i].payload = m})
    + Cardinality({x \in receipts : receipt_data(x) = m})

\* C37: one send operation transmits its datagram at most once. An attempt
\* after which the operation goes on returned WouldBlock and queued nothing,
\* an attempt that did not return WouldBlock ends the operation, and no
\* datagram of a sender is at the peer more than once: only the datagram of
\* an operation that returned Ok, or of the one attempt that is returning.
C37_SendTransmitsAtMostOnce ==
    [][/\ \A t \in Senders :
            attempt_step(t) =>
                /\ in_operation(t)' =>
                      /\ would_block(syscall(t))
                      /\ queue' = queue
                /\ ~would_block(syscall(t)) => finished(t)'
                /\ Len(queue') <= Len(queue) + 1
       /\ \A t \in Senders : \A k \in 1..rounds(t) :
            /\ copies(message(t, k))' <= 1
            /\ copies(message(t, k))' = 1 =>
                  /\ k <= Len(results(t)')
                  /\ results(t)'[k].err = "ok"]_vars

\* A send that had to try again has returned Ok, and its datagram is at
\* the peer once.
C37_Witness ==
    \E t \in Senders :
        /\ finished(t) /\ tasks[t].blocked
        /\ results(t) # <<>> /\ results(t)[Len(results(t))].err = "ok"
        /\ copies(message(t, Len(results(t)))) = 1

----------------------------------------------------------------------------
(* Pending and the waker (under SpecPoll) *)

\* Task t returned Pending and was not polled since; a step in which its
\* poll function returns Pending.
parked(t) == poll.t[t].pc = "parked"
returns_pending(t) == poll.t[t].pc = "poll" /\ poll'.t[t].pc = "parked"

\* What holds step by step: a poll function that returns Pending has stored
\* the caller's waker for its direction in that call, after the attempts of
\* the call; an event on a direction wakes the task whose waker is stored
\* for it; and the waker of a task that waits stays stored until it is
\* woken or another task's waker takes its place.
waker_registered ==
    /\ [][\A t \in PollIds :
            /\ returns_pending(t) => poll'.waker[poll_direction(t)] = t
            /\ (poll.waker[poll_direction(t)] = t
                /\ poll_direction(t) \in poll.event
                /\ poll'.event # poll.event
                /\ poll_direction(t) \notin poll'.event)
                  => poll'.t[t].woken]_vars
    /\ [](\A t \in PollIds :
            parked(t) /\ ~poll.t[t].woken /\ ~poll.t[t].lost
                => poll.waker[poll_direction(t)] = t)

\* The statement without its condition: every task that returned Pending
\* is woken and polled again.
C38_EveryPendingTaskIsWoken ==
    /\ waker_registered
    /\ \A t \in PollIds : parked(t) ~> ~parked(t)

\* C38: whenever poll_send / poll_recv / poll_accept returns Pending, the
\* waker of the calling task is stored for the direction, after the last
\* failed attempt, and the next event on that direction wakes the task:
\* unless another task has called a poll function of the same direction in
\* between, whose waker then replaced it.
C38_PendingTaskIsWokenUnlessReplaced ==
    /\ waker_registered
    /\ \A t \in PollIds : parked(t) ~> (~parked(t) \/ poll.t[t].lost)

\* A task whose attempt failed has returned Pending, and a later event
\* has woken it.
C38_Witness ==
    \E t \in PollIds :
        parked(t) /\ poll.t[t].blocked /\ poll.t[t].woken

----------------------------------------------------------------------------
(* What connect() returns (under SpecConnect) *)

\* The connection of client c exists: it waits at the listener or was
\* accepted.
established(c) ==
    \/ \E i \in 1..Len(lsn.backlog) : lsn.backlog[i] = c
    \/ \E k \in 1..Len(lsn.accepted) : lsn.accepted[k].peer = c

\* C39: connect() returns Ok(socket) only for a socket that is connected to
\* the listener, also when its connect attempt returned WouldBlock.
C39_ConnectOkMeansConnected ==
    \A c \in Clients : lsn.result[c] = "Ok" => established(c)

\* connect() has returned Ok to a client whose attempt found the queue of
\* the listener full.
C39_Witness ==
    /\ lsn.result[1] = "Ok" /\ lsn.client[1] = "unconnected"
    /\ Len(lsn.backlog) = LISTEN_BACKLOG + 1

====
